---- MODULE Spec2Model ----
(***************************************************************************)
(* State-machine model of the core of the Ibali farm dashboard:            *)
(*   - YieldPredictor (src/ai_models.py): prepare_features, train_model,   *)
(*     predict_future_yields, and the dashboard sessions that share it.    *)
(*   - FirebaseService (src/firebase_service.py): the sensor threshold     *)
(*     monitor, the alert store accessor, equipment and weather stations.  *)
(*   - FarmChatbot (src/ai_models.py): get_response.                       *)
(*   - DatabaseManager (src/database.py) and WeatherService (src/utils.py):*)
(*     the queries and the weather lookup with their defaults.             *)
(* Numeric sensor values and thresholds are kept in tenths (20 -> 200,     *)
(* 7.5 -> 75), the confidence placeholder 0.8 as 8 tenths.                 *)
(***************************************************************************)
EXTENDS Integers, Sequences, FiniteSets, TLC

VARIABLES
    is_trained,   \* YieldPredictor.is_trained
    model,        \* YieldPredictor.model: what the regressor was last fitted on
    now,          \* the wall clock read by datetime.now()
    alerts,       \* the 'alerts' collection of the document store: key -> record
    sensors,      \* the 'sensors' collection: sensor id -> (timestamp -> reading)
    emitted,      \* the create_alert calls made by the last FirebaseService call
    notified,     \* the push notifications sent by the last FirebaseService call
    last_op,      \* name of the last YieldPredictor method called
    last_arg,     \* its arguments
    last_ret,     \* its return value
    model_calls,  \* invocations of self.model.predict by the last operation
    model_inputs, \* the future-period feature rows it handed to the model
    creating,     \* per caller: the alert record built and not yet pushed
    create_log,   \* the alert creations that returned, in order of return
    chatbot,      \* the cached FarmChatbot: built or not, with a client or not
    chat_pc,      \* where get_response is: "idle" or waiting on "completion"
    chat_request, \* the arguments of the last get_response call
    chat_reply,   \* what the last get_response call returned
    chat_calls,   \* completion requests sent by the last get_response call
    chat_errors,  \* errors logged by the last get_response call
    sessions,     \* per dashboard session: where its script is in the forecast
    df,           \* the frame handed to prepare_features, changed in place
    prepared,     \* prepare_features has returned
    equipment,    \* the 'equipment' collection: id -> current_status, history
    weather_stations, \* the 'weather_stations' collection: id -> (key -> entry)
    svc,          \* the last call of a data service: operation, outcome, return
    listeners,    \* FirebaseService.listeners: path -> listener registration
    streams       \* every listener registration ever made: "open" or "closed"

vars == <<is_trained, model, now, alerts, sensors, emitted, notified,
          last_op, last_arg, last_ret, model_calls, model_inputs, creating,
          create_log,
          chatbot, chat_pc, chat_request, chat_reply, chat_calls, chat_errors,
          sessions, df, prepared, equipment, weather_stations, svc,
          listeners, streams>>

yieldVars == <<is_trained, model>>
storeVars == <<alerts, sensors, emitted, notified>>
callVars == <<last_op, last_arg, last_ret, model_calls, model_inputs>>
concVars == <<creating, create_log>>

chatVars == <<chatbot, chat_pc, chat_request, chat_reply, chat_calls,
              chat_errors>>

sessVars == <<sessions>>
featVars == <<df, prepared>>
svcVars == <<equipment, weather_stations, svc>>
lsnVars == <<listeners, streams>>

\* The variables of the components outside the YieldPredictor and the
\* sequential FirebaseService calls.
extVars == <<concVars, chatVars, sessVars, featVars, svcVars, lsnVars>>

----------------------------------------------------------------------------
(* Bounds of the model *)

MaxRows == 11        \* largest observation batch handed to train_model
MaxMonths == 3       \* largest months_ahead handed to predict_future_yields
MaxClock == 1        \* the clock runs from 0 to MaxClock
TicksPerDay == 1     \* clock ticks in one day
MaxAlerts == 2       \* push keys the store hands out
MaxLimit == 2        \* largest limit handed to get_alerts
MaxBatch == 3        \* most rows of a frame handed to prepare_features
MaxHistory == 1      \* most history entries of one piece of equipment
MaxListeners == 4    \* most listeners started in one run
MaxStock == 2        \* largest stock and minimum of an inventory item

(* Program constants *)

MinRows == 10        \* len(df) < 10 is insufficient data
DaysPerStep == 30    \* timedelta(days=30 * i)
Confidence == 8      \* 'confidence': 0.8, in tenths
DefaultCrop == 0     \* crop_type_encoded (default)
AverageWeather == 70 \* weather_score (average) 0.7, in hundredths
AverageSoil == 75    \* soil_quality_score (average) 0.75, in hundredths

None == "None"       \* Python's None as a return value

----------------------------------------------------------------------------
(* YieldPredictor *)

\* Target values present in a batch; predictions of a tree ensemble lie
\* between the smallest and the largest target it was fitted on.
YVals == {-1, 1}

\* What can be wrong with a batch:
\*   "prepare": a column is missing or a date does not parse
\*              (prepare_features raises);
\*   "train":   a non-finite feature or target in a row of the train split
\*              (model.fit raises);
\*   "test":    a non-finite feature or target only in rows of the test
\*              split (model.fit succeeds, the evaluation raises).
Defects == {"none", "prepare", "train", "test"}

Batches == {b \in [rows : 0..MaxRows, defect : Defects, ylo : YVals, yhi : YVals] :
              b.ylo <= b.yhi}

Unfitted == [fitted |-> FALSE]

\* sklearn's train_test_split with test_size=0.2: the test split has
\* ceil(0.2 * n) rows.
TestRows(n) == (n + 4) \div 5

FittedOn(b) == [fitted |-> TRUE, n_train |-> b.rows - TestRows(b.rows),
                ylo |-> b.ylo, yhi |-> b.yhi]

\* The minimum-sample guard of train_model.
InsufficientMut(n) == n < MinRows - 1
Insufficient(n) == n < MinRows

\* The outcome of train_model(batch) as [ret, trained, model, calls]: the
\* return value, the new is_trained, the new model and the number of
\* self.model.predict invocations.
TrainOutcomeMut(b, trained, mdl) ==
    IF b.rows = 0 \/ b.defect = "prepare" \/ Insufficient(b.rows)
    THEN [ret |-> FALSE, trained |-> trained, model |-> mdl, calls |-> 0]
    ELSE IF b.defect = "train"
    THEN [ret |-> FALSE, trained |-> trained, model |-> mdl, calls |-> 0]
    ELSE [ret |-> b.defect = "none", trained |-> TRUE, model |-> FittedOn(b),
          calls |-> 1]
TrainOutcome(b, trained, mdl) ==
    IF b.rows = 0                                   \* historical_data.empty
    THEN [ret |-> FALSE, trained |-> trained, model |-> mdl, calls |-> 0]
    ELSE IF b.defect = "prepare"                    \* prepare_features raises
    THEN [ret |-> FALSE, trained |-> trained, model |-> mdl, calls |-> 0]
    ELSE IF Insufficient(b.rows)                    \* len(df) < 10
    THEN [ret |-> FALSE, trained |-> trained, model |-> mdl, calls |-> 0]
    ELSE IF b.defect = "train"                      \* self.model.fit raises
    THEN [ret |-> FALSE, trained |-> trained, model |-> mdl, calls |-> 0]
    ELSE IF b.defect = "test"                       \* predict / MAE raises
    THEN [ret |-> FALSE, trained |-> trained, model |-> FittedOn(b),
          calls |-> 1]
    ELSE [ret |-> TRUE, trained |-> TRUE, model |-> FittedOn(b), calls |-> 1]

TrainModel(b) ==
    LET o == TrainOutcome(b, is_trained, model) IN
    /\ is_trained' = o.trained
    /\ model' = o.model
    /\ last_op' = "train_model"
    /\ last_arg' = b
    /\ last_ret' = o.ret
    /\ model_calls' = o.calls
    /\ model_inputs' = <<>>
    /\ UNCHANGED <<now, storeVars, extVars>>

\* current_date + timedelta(days=30 * i)
FutureDateMut(t, i) == t + DaysPerStep * (i - 1) * TicksPerDay
FutureDate(t, i) == t + DaysPerStep * i * TicksPerDay

\* max(0, pred)
FloorZero(p) == IF p > 0 THEN p ELSE 0

\* One forecast row.
ForecastPoint(t, i, pred) ==
    [date |-> FutureDate(t, i), predicted_yield |-> FloorZero(pred),
     confidence |-> Confidence]

\* The calendar behind datetime: the clock starts on 1 January of a common
\* year, and a date is the number of ticks since then.
MonthLengths == <<31, 28, 31, 30, 31, 30, 31, 31, 30, 31, 30, 31>>

RECURSIVE DaysBefore(_)
DaysBefore(m) == IF m <= 1 THEN 0 ELSE DaysBefore(m - 1) + MonthLengths[m - 1]

\* date.month
MonthOfMut(t) ==
    LET day == (t \div TicksPerDay) % DaysBefore(Len(MonthLengths) + 1) IN
    CHOOSE m \in 0..(Len(MonthLengths) - 1) :
        DaysBefore(m + 1) <= day /\ day < DaysBefore(m + 2)
MonthOf(t) ==
    LET day == (t \div TicksPerDay) % DaysBefore(Len(MonthLengths) + 1) IN
    CHOOSE m \in 1..Len(MonthLengths) :
        DaysBefore(m) <= day /\ day < DaysBefore(m + 1)

\* The feature row of one future period: month, crop_type_encoded,
\* weather_score, soil_quality_score.
PredictionFeatures(date) ==
    <<MonthOf(date), DefaultCrop, AverageWeather, AverageSoil>>

\* The is_trained guard of predict_future_yields.
MayPredictMut(trained, mdl) == mdl.fitted
MayPredict(trained, mdl) == trained

\* The raw values model.predict can return for a model fitted on targets
\* between ylo and yhi.
RawPredictions(mdl) == mdl.ylo .. mdl.yhi

\* range(1, months_ahead + 1)
Steps(n) == 1..n

PredictFutureYields(n) ==
    /\ last_op' = "predict_future_yields"
    /\ last_arg' = [months_ahead |-> n, at |-> now]
    /\ IF ~MayPredict(is_trained, model)
       THEN /\ last_ret' = <<>>                     \* pd.DataFrame()
            /\ model_calls' = 0
            /\ model_inputs' = <<>>
       ELSE \E preds \in [Steps(n) -> RawPredictions(model)] :
              /\ last_ret' = [i \in Steps(n) |-> ForecastPoint(now, i, preds[i])]
              /\ model_calls' = n
              /\ model_inputs' =
                     [i \in Steps(n) |-> PredictionFeatures(FutureDate(now, i))]
    /\ UNCHANGED <<yieldVars, now, storeVars, extVars>>

\* Time passes.
Tick ==
    /\ now < MaxClock
    /\ now' = now + 1
    /\ UNCHANGED <<yieldVars, storeVars, callVars, extVars>>

----------------------------------------------------------------------------
(* The document store behind FirebaseService *)

\* Keys the store's push hands out, in chronological order.
PushKeys == 1..MaxAlerts

\* A key a caller can name that no push handed out. Push keys start with
\* '-', so a key that starts with a letter sorts after every push key.
ForeignKeys == {MaxAlerts + 1}

Max(S) == CHOOSE m \in S : \A x \in S : x <= m
Min(S) == CHOOSE m \in S : \A x \in S : m <= x

\* A record with the fields of upd written over those of old.
MergeMut(old, upd) == upd
Merge(old, upd) ==
    [f \in DOMAIN old \cup DOMAIN upd |->
        IF f \in DOMAIN upd THEN upd[f] ELSE old[f]]

\* ref.child(key).update(upd): merges into the child, creating it if absent.
UpdateChildMut(coll, key, upd) ==
    [k \in {key} |->
        IF key \in DOMAIN coll THEN Merge(coll[key], upd) ELSE upd]
UpdateChild(coll, key, upd) ==
    [k \in DOMAIN coll \cup {key} |->
        IF k # key THEN coll[k]
        ELSE IF key \in DOMAIN coll THEN Merge(coll[key], upd)
        ELSE upd]

\* ref.push(data): stores data under a new key, greater than all before.
NextPushKey(coll) == Cardinality(DOMAIN coll \cap PushKeys) + 1

PushMut(coll, data) ==
    [k \in DOMAIN coll \cup {data.timestamp + 1} |->
        IF k = data.timestamp + 1 THEN data ELSE coll[k]]
Push(coll, data) ==
    [k \in DOMAIN coll \cup {NextPushKey(coll)} |->
        IF k = NextPushKey(coll) THEN data ELSE coll[k]]

----------------------------------------------------------------------------
(* Alert management *)

\* The record create_alert pushes. A source of None is a null child, which
\* the store does not keep; source is given as {} (None) or {id}.
NewAlertFlags == [read |-> FALSE, resolved |-> FALSE]

AlertData(title, message, priority, source, t) ==
    LET base == Merge([title |-> title, message |-> message,
                       priority |-> priority, timestamp |-> t],
                      NewAlertFlags)
    IN  IF source = {} THEN base
        ELSE Merge(base, [source |-> CHOOSE x \in source : TRUE])

\* create_alert as [alerts, ret, notified]: the collection after the call,
\* the return value and the push notifications sent. ok = FALSE: the push
\* raises.
CreateAlertOutcome(coll, title, message, priority, source, t, ok) ==
    IF ~ok
    THEN [alerts |-> coll, ret |-> None, notified |-> <<>>]
    ELSE [alerts |-> Push(coll, AlertData(title, message, priority, source, t)),
          ret |-> NextPushKey(coll),
          notified |-> IF priority = "high" THEN <<title>> ELSE <<>>]

\* The alerts other callers create.
ManualAlerts ==
    {[title |-> <<"Pump check">>, message |-> <<"text">>,
      priority |-> "medium", source |-> {}],
     [title |-> <<"Frost warning">>, message |-> <<"text">>,
      priority |-> "high", source |-> {}]}

CreateAlert(a, ok) ==
    LET o == CreateAlertOutcome(alerts, a.title, a.message, a.priority,
                                a.source, now, ok) IN
    /\ NextPushKey(alerts) <= MaxAlerts
    /\ alerts' = o.alerts
    /\ notified' = o.notified
    /\ emitted' = <<>>
    /\ UNCHANGED <<yieldVars, callVars, now, sensors, extVars>>

\* equal_to(False) on the child 'read'.
UnreadKeysMut(coll) ==
    {k \in DOMAIN coll : "read" \in DOMAIN coll[k] /\ "timestamp" \in DOMAIN coll[k]}
UnreadKeys(coll) ==
    {k \in DOMAIN coll : "read" \in DOMAIN coll[k] /\ coll[k].read = FALSE}

\* limit_to_last(n): the n greatest keys.
RECURSIVE LimitToLast(_, _)
LimitToLast(S, n) ==
    IF n = 0 \/ S = {} THEN {}
    ELSE {Max(S)} \cup LimitToLast(S \ {Max(S)}, n - 1)

\* The keys the query of get_alerts selects.
QueryKeysMut(coll, unread_only, limit) ==
    IF unread_only THEN LimitToLast(DOMAIN coll, limit) \cap UnreadKeys(coll)
    ELSE LimitToLast(DOMAIN coll, limit)
QueryKeys(coll, unread_only, limit) ==
    IF unread_only THEN LimitToLast(UnreadKeys(coll), limit)
    ELSE LimitToLast(DOMAIN coll, limit)

\* The keys of a query result in the order the SDK returns them.
RECURSIVE Ascending(_)
Ascending(S) ==
    IF S = {} THEN <<>> ELSE <<Min(S)>> \o Ascending(S \ {Min(S)})

\* alert_data['id'] = alert_id; alert_list.append(alert_data)
AlertList(coll, keys) ==
    [i \in 1..Cardinality(keys) |->
        Merge(coll[Ascending(keys)[i]], [id |-> Ascending(keys)[i]])]

\* sorted(alert_list, key=lambda x: x['timestamp'], reverse=True): a stable
\* sort, rows of equal timestamp keep their order.
InsertByTimestamp(s, x) ==
    LET older == {i \in 1..Len(s) : s[i].timestamp < x.timestamp}
        p == IF older = {} THEN Len(s) + 1 ELSE Min(older)
    IN  SubSeq(s, 1, p - 1) \o <<x>> \o SubSeq(s, p, Len(s))

RECURSIVE SortNewestFirst(_)
SortNewestFirst(s) ==
    IF s = <<>> THEN <<>>
    ELSE InsertByTimestamp(SortNewestFirst(SubSeq(s, 1, Len(s) - 1)), s[Len(s)])

\* The return value of get_alerts. ok = FALSE: the query raises.
GetAlertsResult(coll, unread_only, limit, ok) ==
    LET keys == QueryKeys(coll, unread_only, limit) IN
    IF ~ok THEN <<>>
    ELSE IF keys = {} THEN <<>>                     \* if alerts: ... return []
    ELSE IF \E k \in keys : "timestamp" \notin DOMAIN coll[k]
    THEN <<>>                                       \* KeyError, caught
    ELSE SortNewestFirst(AlertList(coll, keys))

\* get_alerts reads the store and writes nothing.
GetAlerts(unread_only, limit, ok) ==
    /\ emitted' = <<>>
    /\ notified' = <<>>
    /\ UNCHANGED <<yieldVars, callVars, now, alerts, sensors, extVars>>

\* The fields mark_alert_read writes.
ReadUpdateMut == [read |-> FALSE]
ReadUpdate == [read |-> TRUE]

\* mark_alert_read as [alerts, ret]. ok = FALSE: the update raises.
MarkAlertReadOutcome(coll, alert_id, ok) ==
    IF ok THEN [alerts |-> UpdateChild(coll, alert_id, ReadUpdate), ret |-> TRUE]
    ELSE [alerts |-> coll, ret |-> FALSE]

MarkAlertRead(alert_id, ok) ==
    /\ alerts' = MarkAlertReadOutcome(alerts, alert_id, ok).alerts
    /\ emitted' = <<>>
    /\ notified' = <<>>
    /\ UNCHANGED <<yieldVars, callVars, now, sensors, extVars>>

\* The fields resolve_alert writes; the note "" stands for None and the
\* empty string, which are both left out.
ResolveUpdateMut(note, t) ==
    IF note = "" THEN [resolved |-> TRUE, resolved_at |-> t]
    ELSE [resolved |-> TRUE, resolved_at |-> t, resolution_note |-> note]
ResolveUpdate(note, t) ==
    IF note = ""
    THEN [resolved |-> TRUE, resolved_at |-> t, read |-> TRUE]
    ELSE [resolved |-> TRUE, resolved_at |-> t, read |-> TRUE,
          resolution_note |-> note]

Notes == {"", "fixed"}

\* resolve_alert as [alerts, ret]. ok = FALSE: the update raises.
ResolveAlertOutcome(coll, alert_id, note, t, ok) ==
    IF ok
    THEN [alerts |-> UpdateChild(coll, alert_id, ResolveUpdate(note, t)),
          ret |-> TRUE]
    ELSE [alerts |-> coll, ret |-> FALSE]

ResolveAlert(alert_id, note, ok) ==
    /\ alerts' = ResolveAlertOutcome(alerts, alert_id, note, now, ok).alerts
    /\ emitted' = <<>>
    /\ notified' = <<>>
    /\ UNCHANGED <<yieldVars, callVars, now, sensors, extVars>>

\* The ids callers hand to mark_alert_read and resolve_alert.
KnownKeys == (DOMAIN alerts \cap PushKeys) \cup ForeignKeys

----------------------------------------------------------------------------
(* Sensor readings and the threshold monitor *)

SensorIds == {"s1"}
SensorTypes == {"soil_moisture", "temperature", "humidity", "ph_level", "light"}

\* alert_thresholds, in tenths.
MonitoredTypes == {"soil_moisture", "temperature", "humidity", "ph_level"}
ThresholdMin(sensor_type) ==
    CASE sensor_type = "soil_moisture" -> 200
      [] sensor_type = "temperature" -> 50
      [] sensor_type = "humidity" -> 300
      [] sensor_type = "ph_level" -> 60
ThresholdMax(sensor_type) ==
    CASE sensor_type = "soil_moisture" -> 800
      [] sensor_type = "temperature" -> 350
      [] sensor_type = "humidity" -> 900
      [] sensor_type = "ph_level" -> 75

\* sensor_type.replace('_', ' ').title()
TitleCase(sensor_type) ==
    CASE sensor_type = "soil_moisture" -> "Soil Moisture"
      [] sensor_type = "temperature" -> "Temperature"
      [] sensor_type = "humidity" -> "Humidity"
      [] sensor_type = "ph_level" -> "Ph Level"

\* The comparisons of _check_sensor_alerts.
BelowMinMut(value, sensor_type) == value <= ThresholdMin(sensor_type)
BelowMin(value, sensor_type) == value < ThresholdMin(sensor_type)
AboveMax(value, sensor_type) == value > ThresholdMax(sensor_type)

\* The create_alert calls _check_sensor_alerts makes for one reading.
SensorAlertCalls(sensor_id, sensor_type, value) ==
    IF sensor_type \notin MonitoredTypes THEN <<>>
    ELSE IF BelowMin(value, sensor_type)
    THEN <<[title |-> <<"Low", TitleCase(sensor_type)>>,
            message |-> <<"Sensor", sensor_id, sensor_type, value,
                          "below minimum", ThresholdMin(sensor_type)>>,
            priority |-> "high", source |-> {sensor_id}]>>
    ELSE IF AboveMax(value, sensor_type)
    THEN <<[title |-> <<"High", TitleCase(sensor_type)>>,
            message |-> <<"Sensor", sensor_id, sensor_type, value,
                          "above maximum", ThresholdMax(sensor_type)>>,
            priority |-> "high", source |-> {sensor_id}]>>
    ELSE <<>>

\* The values a sensor of a type reports: around both bounds of a monitored
\* type, and two values of a type the table does not hold.
SensorValues(sensor_type) ==
    IF sensor_type \in MonitoredTypes
    THEN {ThresholdMin(sensor_type) - 1, ThresholdMin(sensor_type),
          ThresholdMin(sensor_type) + 1, ThresholdMax(sensor_type) - 1,
          ThresholdMax(sensor_type), ThresholdMax(sensor_type) + 1}
    ELSE {-1, 100000}

\* location or {'lat': 0, 'lng': 0}; location is {} (None) or {place}.
Locations == {{}, {[lat |-> 1, lng |-> 2]}}
LocationOrDefault(location) ==
    IF location = {} THEN [lat |-> 0, lng |-> 0]
    ELSE CHOOSE x \in location : TRUE

ReadingData(sensor_type, value, unit, location, t) ==
    [value |-> value, unit |-> unit, timestamp |-> t,
     sensor_type |-> sensor_type, location |-> LocationOrDefault(location)]

\* db_ref.child('sensors').child(sensor_id).child(timestamp).set(data)
SetReading(coll, sensor_id, t, data) ==
    [s \in DOMAIN coll \cup {sensor_id} |->
        IF s # sensor_id THEN coll[s]
        ELSE [ts \in (IF sensor_id \in DOMAIN coll THEN DOMAIN coll[sensor_id]
                      ELSE {}) \cup {t} |->
                IF ts = t THEN data ELSE coll[sensor_id][ts]]]

\* add_sensor_reading. write_ok = FALSE: the set of the reading raises;
\* push_ok = FALSE: the push inside create_alert raises (create_alert
\* catches it and add_sensor_reading goes on).
AddSensorReading(sensor_id, sensor_type, value, unit, location, write_ok, push_ok) ==
    LET calls == SensorAlertCalls(sensor_id, sensor_type, value)
        o == CreateAlertOutcome(alerts, calls[1].title, calls[1].message,
                                calls[1].priority, calls[1].source, now, push_ok)
    IN
    /\ NextPushKey(alerts) <= MaxAlerts
    /\ IF ~write_ok
       THEN /\ UNCHANGED <<sensors, alerts>>
            /\ emitted' = <<>>
            /\ notified' = <<>>
       ELSE /\ sensors' = SetReading(sensors, sensor_id, now,
                             ReadingData(sensor_type, value, unit, location, now))
            /\ emitted' = calls
            /\ IF calls = <<>>
               THEN /\ UNCHANGED alerts
                    /\ notified' = <<>>
               ELSE /\ alerts' = o.alerts
                    /\ notified' = o.notified
    /\ UNCHANGED <<yieldVars, callVars, now, extVars>>

\* The return value of add_sensor_reading.
AddSensorReadingResult(write_ok) == write_ok

----------------------------------------------------------------------------
(* Concurrent alert creation: FirebaseService.create_alert and              *)
(* DatabaseManager.add_firebase_alert push into the same 'alerts'           *)
(* collection from several callers at once.                                 *)

\* The callers that create alerts at the same time.
Callers == {"dashboard", "ingest"}

\* The record add_firebase_alert pushes.
FirebaseAlertData(alert_type, message, priority, t) ==
    [type |-> alert_type, message |-> message, priority |-> priority,
     timestamp |-> t, read |-> FALSE]

\* add_firebase_alert as [alerts, ret]. ok = FALSE: the push raises.
AddFirebaseAlertOutcome(coll, alert_type, message, priority, t, ok) ==
    IF ~ok
    THEN [alerts |-> coll, ret |-> FALSE]
    ELSE [alerts |-> Push(coll, FirebaseAlertData(alert_type, message, priority, t)),
          ret |-> TRUE]

\* The alerts DatabaseManager callers add.
DatabaseAlerts ==
    {[alert_type |-> "weather", message |-> <<"text">>, priority |-> "medium"]}

\* The calls a caller can make.
CreateCalls ==
    {[op |-> "create_alert", args |-> a] : a \in ManualAlerts}
    \cup {[op |-> "add_firebase_alert", args |-> a] : a \in DatabaseAlerts}

\* The record a call pushes, built at time t.
CallData(call, t) ==
    IF call.op = "create_alert"
    THEN AlertData(call.args.title, call.args.message, call.args.priority,
                   call.args.source, t)
    ELSE FirebaseAlertData(call.args.alert_type, call.args.message,
                           call.args.priority, t)

\* What a call does to the store and returns, as [alerts, ret].
CallOutcome(coll, call, t, ok) ==
    IF call.op = "create_alert"
    THEN LET o == CreateAlertOutcome(coll, call.args.title, call.args.message,
                                     call.args.priority, call.args.source, t, ok)
         IN  [alerts |-> o.alerts, ret |-> o.ret]
    ELSE AddFirebaseAlertOutcome(coll, call.args.alert_type, call.args.message,
                                 call.args.priority, t, ok)

InFlight == Cardinality({c \in Callers : creating[c] # <<>>})

\* A caller enters create_alert / add_firebase_alert and builds the record
\* with the timestamp of its own clock reading.
BeginCreate(c, call) ==
    /\ creating[c] = <<>>
    /\ Len(create_log) + InFlight < MaxAlerts
    /\ creating' = [creating EXCEPT ![c] = <<[call |-> call, t |-> now]>>]
    /\ UNCHANGED <<lsnVars, yieldVars, storeVars, callVars, now, create_log, chatVars,
                   sessVars, featVars, svcVars>>

\* The store takes the caller's push (or the push raises) and the call
\* returns.
CompleteCreate(c, ok) ==
    /\ creating[c] # <<>>
    /\ LET call == creating[c][1].call
           t == creating[c][1].t
           o == CallOutcome(alerts, call, t, ok)
       IN  /\ alerts' = o.alerts
           /\ create_log' = Append(create_log,
                                   [caller |-> c, op |-> call.op, pushed |-> ok,
                                    ret |-> o.ret, data |-> CallData(call, t)])
    /\ creating' = [creating EXCEPT ![c] = <<>>]
    /\ notified' = <<>>
    /\ emitted' = <<>>
    /\ UNCHANGED <<lsnVars, yieldVars, callVars, now, sensors, chatVars, sessVars,
                   featVars, svcVars>>

----------------------------------------------------------------------------
(* FarmChatbot. A Python string is a sequence: a message or a keyword is    *)
(* the sequence of its characters, a reply is the sequence of the pieces    *)
(* the code concatenates.                                                   *)

LowerCase ==
    <<"a", "b", "c", "d", "e", "f", "g", "h", "i", "j", "k", "l", "m",
      "n", "o", "p", "q", "r", "s", "t", "u", "v", "w", "x", "y", "z">>
UpperCase ==
    <<"A", "B", "C", "D", "E", "F", "G", "H", "I", "J", "K", "L", "M",
      "N", "O", "P", "Q", "R", "S", "T", "U", "V", "W", "X", "Y", "Z">>

IsLower(c) == \E i \in 1..Len(LowerCase) : LowerCase[i] = c
IsUpper(c) == \E i \in 1..Len(UpperCase) : UpperCase[i] = c
IsLetter(c) == IsLower(c) \/ IsUpper(c)

ToLower(c) ==
    IF IsUpper(c)
    THEN LowerCase[CHOOSE i \in 1..Len(UpperCase) : UpperCase[i] = c]
    ELSE c
ToUpper(c) ==
    IF IsLower(c)
    THEN UpperCase[CHOOSE i \in 1..Len(LowerCase) : LowerCase[i] = c]
    ELSE c

\* str.lower()
Lower(text) == [i \in 1..Len(text) |-> ToLower(text[i])]

\* str.title(): a letter that follows a non-letter is upper-cased, every
\* other letter lower-cased.
Title(text) ==
    [i \in 1..Len(text) |->
        IF i = 1 \/ ~IsLetter(text[i - 1]) THEN ToUpper(text[i])
        ELSE ToLower(text[i])]

\* sub in text, for strings.
ContainsMut(text, sub) ==
    \E i \in 0..(Len(text) - Len(sub)) :
        /\ SubSeq(text, i + 1, i + Len(sub)) = sub
        /\ (i = 0 \/ text[i] = " ")
        /\ (i + Len(sub) = Len(text) \/ text[i + Len(sub) + 1] = " ")
Contains(text, sub) ==
    \E i \in 0..(Len(text) - Len(sub)) :
        SubSeq(text, i + 1, i + Len(sub)) = sub

\* str.split(): the maximal runs of characters that are not whitespace.
Words(text) ==
    {w \in {SubSeq(text, i, j) : i \in 1..Len(text), j \in 1..Len(text)} :
       \E i \in 1..Len(text) :
          /\ w # <<>>
          /\ i + Len(w) - 1 <= Len(text)
          /\ SubSeq(text, i, i + Len(w) - 1) = w
          /\ \A k \in 1..Len(w) : w[k] # " "
          /\ (i = 1 \/ text[i - 1] = " ")
          /\ (i + Len(w) - 1 = Len(text) \/ text[i + Len(w)] = " ")}

\* self.knowledge_base, in insertion order.
knowledge_base ==
    <<
      [category |-> "crop_care",
       key |-> <<"c", "o", "r", "n">>,
       response |-> "Corn requires well-drained soil, regular watering, and nitrogen-rich fertilizer. Plant after last frost."],
      [category |-> "crop_care",
       key |-> <<"w", "h", "e", "a", "t">>,
       response |-> "Wheat grows best in cool, moist conditions. Requires good drainage and moderate fertilization."],
      [category |-> "crop_care",
       key |-> <<"s", "o", "y", "b", "e", "a", "n", "s">>,
       response |-> "Soybeans fix their own nitrogen. Need warm soil and moderate water. Avoid overwatering."],
      [category |-> "livestock",
       key |-> <<"c", "a", "t", "t", "l", "e">>,
       response |-> "Cattle need fresh water, quality pasture, and regular health checks. Rotate grazing areas."],
      [category |-> "livestock",
       key |-> <<"c", "h", "i", "c", "k", "e", "n", "s">>,
       response |-> "Chickens need secure housing, balanced feed, and clean water. Collect eggs daily."],
      [category |-> "livestock",
       key |-> <<"p", "i", "g", "s">>,
       response |-> "Pigs require shelter, balanced diet, and clean environment. Monitor for diseases."],
      [category |-> "pest_control",
       key |-> <<"a", "p", "h", "i", "d", "s">>,
       response |-> "Use ladybugs, neem oil, or insecticidal soap. Remove affected leaves."],
      [category |-> "pest_control",
       key |-> <<"c", "a", "t", "e", "r", "p", "i", "l", "l", "a", "r",
               "s">>,
       response |-> "Hand-pick or use Bt (Bacillus thuringiensis) spray. Check plants regularly."],
      [category |-> "pest_control",
       key |-> <<"f", "u", "n", "g", "a", "l", "_", "d", "i", "s", "e", "a",
               "s", "e", "s">>,
       response |-> "Improve air circulation, avoid overhead watering, use fungicides if needed."]
    >>

\* any(word in message for word in key.split())
WordRuleMut(key, message) ==
    \E word \in Words(key) : word \in Words(message)
WordRule(key, message) ==
    \E word \in Words(key) : Contains(message, word)

\* key in message or any(word in message for word in key.split())
KeyMatches(key, message) ==
    \/ Contains(message, key)
    \/ WordRule(key, message)

\* The position of the first entry _check_knowledge_base matches, 0 when it
\* returns None.
FirstMatch(message) ==
    LET hits == {i \in 1..Len(knowledge_base) :
                   KeyMatches(knowledge_base[i].key, message)}
    IN  IF hits = {} THEN 0 ELSE Min(hits)

\* f"**{key.title()} Care Tips:**\n\n{response}"
CareTips(entry) ==
    <<"**">> \o Title(entry.key) \o <<" Care Tips:**", "\n", "\n">>
    \o <<entry.response>>

\* _check_knowledge_base(message): <<>> stands for None.
CheckKnowledgeBase(message) ==
    IF FirstMatch(message) = 0 THEN <<>>
    ELSE CareTips(knowledge_base[FirstMatch(message)])

\* The responses of _get_fallback_response.
FallbackResponsesMut ==
    << <<"That's a great question about farming! I'd recommend checking with your local agricultural extension office for specific advice.">>,
       <<"For detailed farming guidance, consider consulting agricultural experts in your area or checking reputable farming resources online.">>,
       <<"I'm sorry, I'm having trouble processing your request right now. Please try again later.">> >>
FallbackResponses ==
    << <<"That's a great question about farming! I'd recommend checking with your local agricultural extension office for specific advice.">>,
       <<"For detailed farming guidance, consider consulting agricultural experts in your area or checking reputable farming resources online.">>,
       <<"I understand you're looking for farming advice. The dashboard data might have relevant insights, or you could consult with agricultural specialists.">> >>

\* The reply of the except clause of get_response.
ApologyMut ==
    <<"I'm sorry, I'm having trouble processing your request right now. Please try again later.",
      "'NoneType' object has no attribute 'lower'">>
Apology ==
    <<"I'm sorry, I'm having trouble processing your request right now. Please try again later.">>

\* Texts the completion service answers with.
CompletionTexts == {<<"Water early in the day.">>, <<>>}

\* The user messages: strings, and a value that is not a string.
MessageTexts ==
    {
      <<"m", "y", " ", "c", "o", "r", "n", " ", "h", "a", "s", " ", "a",
        "p", "h", "i", "d", "s">>,
      <<"A", "p", "h", "i", "d", "s", "!">>,
      <<"p", "o", "p", "c", "o", "r", "n">>,
      <<"p", "i", "g", "s", " ", "a", "n", "d", " ", "c", "a", "t", "t",
        "l", "e">>,
      <<"f", "u", "n", "g", "a", "l", " ", "d", "i", "s", "e", "a", "s",
        "e", "s">>,
      <<"h", "e", "l", "l", "o">>,
      <<"W", "h", "e", "a", "t", " ", "r", "u", "s", "t">>,
      <<"p", "i", "g">>,
      <<>>
    }

Messages ==
    {[kind |-> "str", text |-> t] : t \in MessageTexts}
    \cup {[kind |-> "NoneType", text |-> <<>>]}

\* context_data: None, a dict, or a table (whose truth value raises).
Contexts == {"None", "dict", "DataFrame"}

\* get_chatbot(): the cached FarmChatbot is built on first use; has_key is
\* the truth of Config.OPENAI_API_KEY.
GetChatbot(has_key) ==
    /\ ~chatbot.built
    /\ chatbot' = [built |-> TRUE, client |-> has_key]
    /\ UNCHANGED <<lsnVars, yieldVars, storeVars, callVars, now, concVars, sessVars,
                   featVars, svcVars,
                   chat_pc, chat_request, chat_reply, chat_calls, chat_errors>>

\* get_response up to its return or, with a client and no local match, up to
\* the completion request of _get_ai_response. pick is the draw of
\* np.random.choice.
GetResponse(user_message, context_data, pick) ==
    /\ chatbot.built
    /\ chat_pc = "idle"
    /\ chat_request' = <<[user_message |-> user_message,
                          context_data |-> context_data]>>
    /\ IF user_message.kind # "str"                 \* .lower() raises
       THEN /\ chat_reply' = Apology
            /\ chat_errors' = <<"Chatbot error">>
            /\ chat_calls' = 0
            /\ chat_pc' = "idle"
       ELSE LET local_response == CheckKnowledgeBase(Lower(user_message.text)) IN
            IF local_response # <<>>
            THEN /\ chat_reply' = local_response
                 /\ chat_errors' = <<>>
                 /\ chat_calls' = 0
                 /\ chat_pc' = "idle"
            ELSE IF ~chatbot.client
            THEN /\ chat_reply' = FallbackResponses[pick]
                 /\ chat_errors' = <<>>
                 /\ chat_calls' = 0
                 /\ chat_pc' = "idle"
            ELSE IF context_data = "DataFrame"      \* if context_data: raises
            THEN /\ chat_reply' = FallbackResponses[pick]
                 /\ chat_errors' = <<"OpenAI API error">>
                 /\ chat_calls' = 0
                 /\ chat_pc' = "idle"
            ELSE /\ chat_reply' = <<>>
                 /\ chat_errors' = <<>>
                 /\ chat_calls' = 1
                 /\ chat_pc' = "completion"
    /\ UNCHANGED <<lsnVars, yieldVars, storeVars, callVars, now, concVars, sessVars,
                   featVars, svcVars, chatbot>>

\* The completion request returns a text or raises; _get_ai_response and
\* get_response return.
CompletionReturns(ok, text, pick) ==
    /\ chat_pc = "completion"
    /\ IF ok
       THEN /\ chat_reply' = text
            /\ chat_errors' = <<>>
       ELSE /\ chat_reply' = FallbackResponses[pick]
            /\ chat_errors' = <<"OpenAI API error">>
    /\ chat_pc' = "idle"
    /\ UNCHANGED <<lsnVars, yieldVars, storeVars, callVars, now, concVars, sessVars,
                   featVars, svcVars, chatbot, chat_request, chat_calls>>

----------------------------------------------------------------------------
(* Dashboard sessions. get_yield_predictor is a cached resource: every      *)
(* session's script run gets the same YieldPredictor, and the runs of       *)
(* different sessions are concurrent threads.                               *)

Sessions == {"session_a", "session_b"}

\* The history a script run reads from the database: not empty (the
\* script skips the forecast otherwise).
SessionBatches ==
    {b \in Batches : b.rows >= MinRows - 1 /\ b.ylo = b.yhi}

Idle == [at |-> "idle", batch |-> <<>>]

\* yield_predictor.train_model(historical_data) up to self.model.fit: the
\* call returns False before fitting, or enters fit.
SessionBeginTrain(s, b) ==
    /\ sessions[s].at = "idle"
    /\ IF b.defect = "prepare" \/ Insufficient(b.rows)
       THEN sessions' = [sessions EXCEPT ![s] = [at |-> "trained", batch |-> <<>>]]
       ELSE sessions' = [sessions EXCEPT ![s] = [at |-> "fit", batch |-> <<b>>]]
    /\ UNCHANGED <<lsnVars, yieldVars, storeVars, callVars, now, concVars, chatVars,
                   featVars, svcVars>>

\* self.model.fit and the rest of train_model finish.
SessionEndTrain(s) ==
    /\ sessions[s].at = "fit"
    /\ LET o == TrainOutcome(sessions[s].batch[1], is_trained, model) IN
         /\ is_trained' = o.trained
         /\ model' = o.model
    /\ sessions' = [sessions EXCEPT ![s] = [at |-> "trained", batch |-> <<>>]]
    /\ UNCHANGED <<lsnVars, storeVars, callVars, now, concVars, chatVars, featVars,
                   svcVars>>

\* yield_predictor.predict_future_yields(6) up to the first model.predict:
\* returns at once when the predictor is not trained.
SessionBeginPredict(s) ==
    /\ sessions[s].at = "trained"
    /\ IF MayPredict(is_trained, model)
       THEN sessions' = [sessions EXCEPT ![s] = [at |-> "predict", batch |-> <<>>]]
       ELSE sessions' = [sessions EXCEPT ![s] = Idle]
    /\ UNCHANGED <<lsnVars, yieldVars, storeVars, callVars, now, concVars, chatVars,
                   featVars, svcVars>>

\* predict_future_yields returns and the script run ends.
SessionEndPredict(s) ==
    /\ sessions[s].at = "predict"
    /\ sessions' = [sessions EXCEPT ![s] = Idle]
    /\ UNCHANGED <<lsnVars, yieldVars, storeVars, callVars, now, concVars, chatVars,
                   featVars, svcVars>>

----------------------------------------------------------------------------
(* YieldPredictor.prepare_features. A frame is a sequence of rows; a cell   *)
(* that can be missing (NaN) is a set, {} when missing and {v} otherwise.   *)
(* Weather scores are in tenths; a soil score is a fraction num/den of      *)
(* tenths, so that a mean is exact.                                         *)

CropTypes == <<"corn", "wheat", "soybeans">>
WeatherConditions == <<"sunny", "drought", "hail", None>>
SoilCells == << {}, {[num |-> 6, den |-> 1]}, {[num |-> 9, den |-> 1]} >>

\* The rows of the frames: every crop, condition and soil cell, in a third
\* of their combinations.
FeatureRows ==
    {[ds |-> <<2024, 3, 15>>, crop_type |-> CropTypes[i],
      weather_condition |-> WeatherConditions[j],
      soil_quality_score |-> SoilCells[k]] :
        <<i, j, k>> \in {t \in (1..Len(CropTypes)) \X (1..Len(WeatherConditions))
                                \X (1..Len(SoilCells)) :
                           (t[1] + t[2] + t[3]) % 3 = 0}}

Frames == UNION {[1..n -> FeatureRows] : n \in 0..MaxBatch}

\* pd.to_datetime on an ISO date.
ToDatetime(ds) == [year |-> ds[1], month |-> ds[2], day |-> ds[3]]

\* df[name]
Column(frame, name) == [i \in 1..Len(frame) |-> frame[i][name]]

\* Series.unique(): the distinct values in order of first appearance.
RECURSIVE UniqueMut(_)
UniqueMut(col) ==
    IF col = <<>> THEN <<>>
    ELSE LET rest == UniqueMut(Tail(col)) IN
         IF \E i \in 1..Len(rest) : rest[i] = Head(col) THEN rest
         ELSE <<Head(col)>> \o rest
RECURSIVE Unique(_)
Unique(col) ==
    IF col = <<>> THEN <<>>
    ELSE LET front == Unique(SubSeq(col, 1, Len(col) - 1))
             last == col[Len(col)] IN
         IF \E i \in 1..Len(front) : front[i] = last THEN front
         ELSE Append(front, last)

\* {crop: idx for idx, crop in enumerate(crop_types)}
CropMapping(crop_types) ==
    [crop \in {crop_types[i] : i \in 1..Len(crop_types)} |->
        (CHOOSE i \in 1..Len(crop_types) : crop_types[i] = crop) - 1]

weather_mapping ==
    [sunny |-> 9, partly_cloudy |-> 7, cloudy |-> 5, rainy |-> 3,
     stormy |-> 1, drought |-> 1]

\* Series.map(mapping): a value that is not a key maps to NaN.
MapCell(mapping, v) == IF v \in DOMAIN mapping THEN {mapping[v]} ELSE {}

\* Series.fillna(value): value is itself a cell, NaN fills nothing.
FillNa(cell, value) == IF cell = {} THEN value ELSE cell

\* df['weather_condition'].map(weather_mapping).fillna(0.5), one cell.
WeatherScoreMut(condition) ==
    CHOOSE x \in FillNa(MapCell(weather_mapping, condition), {7}) : TRUE
WeatherScore(condition) ==
    CHOOSE x \in FillNa(MapCell(weather_mapping, condition), {5}) : TRUE

RECURSIVE SumCells(_)
SumCells(col) ==
    IF col = <<>> THEN [num |-> 0, den |-> 1]
    ELSE LET rest == SumCells(Tail(col)) IN
         IF Head(col) = {} THEN rest
         ELSE LET x == CHOOSE v \in Head(col) : TRUE IN
              [num |-> x.num * rest.den + rest.num * x.den,
               den |-> x.den * rest.den]

CountCells(col) == Cardinality({i \in 1..Len(col) : col[i] # {}})

\* Series.mean(): NaN cells are skipped; NaN when no cell is left.
MeanMut(col) ==
    IF CountCells(col) = 0 THEN {}
    ELSE {[num |-> SumCells(col).num, den |-> SumCells(col).den * Len(col)]}
Mean(col) ==
    IF CountCells(col) = 0 THEN {}
    ELSE {[num |-> SumCells(col).num,
           den |-> SumCells(col).den * CountCells(col)]}

\* The frame prepare_features returns for a frame that is not empty.
PreparedFrame(frame) ==
    LET crop_types == Unique(Column(frame, "crop_type"))
        crop_mapping == CropMapping(crop_types)
        soil_mean == Mean(Column(frame, "soil_quality_score"))
    IN  [i \in 1..Len(frame) |->
           [ds |-> ToDatetime(frame[i].ds),
            month |-> ToDatetime(frame[i].ds).month,
            crop_type |-> frame[i].crop_type,
            crop_type_encoded |-> crop_mapping[frame[i].crop_type],
            weather_condition |-> frame[i].weather_condition,
            weather_score |-> WeatherScore(frame[i].weather_condition),
            soil_quality_score |-> FillNa(frame[i].soil_quality_score, soil_mean)]]

\* prepare_features(df): an empty frame is answered with an empty frame, any
\* other frame gets its columns added and filled in place.
PrepareFeatures ==
    /\ ~prepared
    /\ df' = IF df = <<>> THEN <<>> ELSE PreparedFrame(df)
    /\ prepared' = TRUE
    /\ UNCHANGED <<lsnVars, yieldVars, storeVars, callVars, now, concVars, chatVars,
                   sessVars, svcVars>>

----------------------------------------------------------------------------
(* The data services: the relational queries of DatabaseManager, its two    *)
(* alert calls, the sensor, equipment and weather-station calls of          *)
(* FirebaseService and WeatherService.get_current_weather. A table is the   *)
(* sequence of its rows; ok = FALSE means the external call raises.         *)

Called(op, arg, ok, ret) == [op |-> op, arg |-> arg, ok |-> ok, ret |-> ret]

\* The queries that go through pd.read_sql.
QueryNames ==
    {"get_kpi_metrics", "get_harvest_trends", "get_issue_locations",
     "get_resource_status", "get_historical_yields", "get_inventory_data"}

\* The CASE expression of the inventory query: the first WHEN that holds
\* gives the status.
InventoryStatus(current_stock, min_required) ==
    IF current_stock <= min_required THEN "Low Stock"
    ELSE IF current_stock = 0 THEN "Out of Stock"
    ELSE "In Stock"

\* The rows of the inventory table; min_required is a number the schema
\* does not restrict.
InventoryItems ==
    [item_name : {"seed"}, current_stock : 0..MaxStock,
     min_required : -1..MaxStock]

\* One row of the result of the inventory query.
InventoryRow(item) ==
    [item_name |-> item.item_name, current_stock |-> item.current_stock,
     min_required |-> item.min_required,
     status |-> InventoryStatus(item.current_stock, item.min_required)]

\* What the database answers to a query.
QueryTables(name) ==
    IF name = "get_kpi_metrics"
    THEN {<<[total_harvest |-> 12, total_livestock |-> 3,
             pending_requests |-> 1, delivered_requests |-> 2]>>}
    ELSE IF name = "get_inventory_data"
    THEN {<<>>} \cup {<<InventoryRow(item)>> : item \in InventoryItems}
    ELSE {<<>>, <<[row |-> 1]>>}

\* The value the except clause of a query returns.
QueryDefaultMut(name) == <<>>
QueryDefault(name) ==
    IF name = "get_kpi_metrics"
    THEN <<[total_harvest |-> 0, total_livestock |-> 0,
            pending_requests |-> 0, delivered_requests |-> 0]>>
    ELSE <<>>

QueryOutcome(name, table, ok) == IF ok THEN table ELSE QueryDefault(name)

RelationalQuery(name, table, ok) ==
    /\ svc' = Called(name, <<>>, ok, QueryOutcome(name, table, ok))
    /\ UNCHANGED <<lsnVars, yieldVars, storeVars, callVars, now, concVars, chatVars,
                   sessVars, featVars, equipment, weather_stations>>

\* get_firebase_alerts: alerts if alerts else {}.
GetFirebaseAlertsOutcome(coll, ok) == IF ok THEN coll ELSE <<>>

GetFirebaseAlerts(ok) ==
    /\ svc' = Called("get_firebase_alerts", <<>>, ok,
                     GetFirebaseAlertsOutcome(alerts, ok))
    /\ UNCHANGED <<lsnVars, yieldVars, storeVars, callVars, now, concVars, chatVars,
                   sessVars, featVars, equipment, weather_stations>>

\* add_firebase_alert, called by one caller at a time.
AddFirebaseAlert(a, ok) ==
    LET o == AddFirebaseAlertOutcome(alerts, a.alert_type, a.message,
                                     a.priority, now, ok) IN
    /\ NextPushKey(alerts) <= MaxAlerts
    /\ alerts' = o.alerts
    /\ svc' = Called("add_firebase_alert", a, ok, o.ret)
    /\ UNCHANGED <<lsnVars, yieldVars, callVars, now, sensors, emitted, notified,
                   concVars, chatVars, sessVars, featVars, equipment,
                   weather_stations>>

\* The records get_sensor_data collects: every reading of every sensor, with
\* its sensor id and the key it is stored under.
RECURSIVE SensorRecords(_, _)
SensorRecords(coll, ids) ==
    IF ids = {} THEN <<>>
    ELSE LET id == CHOOSE x \in ids : TRUE
             keys == Ascending(DOMAIN coll[id])
         IN  [i \in 1..Len(keys) |->
                Merge(coll[id][keys[i]], [sensor_id |-> id, timestamp |-> keys[i]])]
             \o SensorRecords(coll, ids \ {id})

\* get_sensor_data(): the call without a sensor type and with a limit that
\* holds every sensor.
GetSensorDataOutcome(coll, ok) ==
    IF ~ok THEN <<>> ELSE SensorRecords(coll, DOMAIN coll)

GetSensorData(ok) ==
    /\ svc' = Called("get_sensor_data", <<>>, ok, GetSensorDataOutcome(sensors, ok))
    /\ UNCHANGED <<lsnVars, yieldVars, storeVars, callVars, now, concVars, chatVars,
                   sessVars, featVars, equipment, weather_stations>>

EquipmentIds == {"tractor"}
EquipmentStates == {"active", "broken"}

\* status_data of track_equipment_status; operator is None and not stored.
StatusData(status, location, t) ==
    [status |-> status, location |-> LocationOrDefault(location), timestamp |-> t]

\* The children of one piece of equipment.
EquipmentNode(coll, equipment_id) ==
    IF equipment_id \in DOMAIN coll THEN coll[equipment_id] ELSE <<>>

History(coll, equipment_id) ==
    IF "history" \in DOMAIN EquipmentNode(coll, equipment_id)
    THEN EquipmentNode(coll, equipment_id).history ELSE <<>>

SetChild(coll, equipment_id, child, value) ==
    [e \in DOMAIN coll \cup {equipment_id} |->
        IF e # equipment_id THEN coll[e]
        ELSE Merge(EquipmentNode(coll, equipment_id),
                   [c \in {child} |-> value])]

\* track_equipment_status as [equipment, ret]: current_status is set, then
\* the same record is pushed to history; either call can raise.
TrackEquipmentStatusOutcome(coll, equipment_id, status, location, t, set_ok, push_ok) ==
    LET data == StatusData(status, location, t)
        current == SetChild(coll, equipment_id, "current_status", data)
    IN  IF ~set_ok THEN [equipment |-> coll, ret |-> FALSE]
        ELSE IF ~push_ok THEN [equipment |-> current, ret |-> FALSE]
        ELSE [equipment |-> SetChild(current, equipment_id, "history",
                                 Append(History(coll, equipment_id), data)),
              ret |-> TRUE]

TrackEquipmentStatus(equipment_id, status, location, set_ok, push_ok) ==
    LET o == TrackEquipmentStatusOutcome(equipment, equipment_id, status,
                                         location, now, set_ok, push_ok) IN
    /\ Len(History(equipment, equipment_id)) < MaxHistory
    /\ equipment' = o.equipment
    /\ svc' = Called("track_equipment_status", equipment_id,
                     set_ok /\ push_ok, o.ret)
    /\ UNCHANGED <<lsnVars, yieldVars, storeVars, callVars, now, concVars, chatVars,
                   sessVars, featVars, weather_stations>>

\* The list get_equipment_status() builds.
RECURSIVE StatusList(_, _)
StatusList(coll, ids) ==
    IF ids = {} THEN <<>>
    ELSE LET id == CHOOSE x \in ids : TRUE IN
         (IF "current_status" \in DOMAIN coll[id]
          THEN <<Merge(coll[id].current_status, [equipment_id |-> id])>>
          ELSE <<>>)
         \o StatusList(coll, ids \ {id})

\* get_equipment_status(equipment_id): equipment_id is {} (None) or {id}.
\* With an id the return value is the stored status as a cell, {} for None.
GetEquipmentStatusOutcome(coll, equipment_id, ok) ==
    IF equipment_id # {}
    THEN LET id == CHOOSE x \in equipment_id : TRUE IN
         IF ~ok THEN {}
         ELSE IF "current_status" \in DOMAIN EquipmentNode(coll, id)
         THEN {coll[id].current_status} ELSE {}
    ELSE IF ~ok THEN <<>> ELSE StatusList(coll, DOMAIN coll)

GetEquipmentStatus(equipment_id, ok) ==
    /\ svc' = Called("get_equipment_status", equipment_id, ok,
                     GetEquipmentStatusOutcome(equipment, equipment_id, ok))
    /\ UNCHANGED <<lsnVars, yieldVars, storeVars, callVars, now, concVars, chatVars,
                   sessVars, featVars, equipment, weather_stations>>

StationIds == {"station_1"}

\* The readings a station reports; a field that is absent is None.
WeatherReports == {[temperature |-> 180], [temperature |-> 180, rainfall |-> 4]}

\* weather_entry of log_weather_data: None fields are not stored, rainfall
\* defaults to 0.
WeatherEntry(weather_data, t) ==
    Merge(Merge([rainfall |-> 0], weather_data), [timestamp |-> t])

\* log_weather_data as [weather_stations, ret]: the entry is set under its
\* timestamp.
LogWeatherDataOutcome(coll, station_id, weather_data, t, ok) ==
    IF ~ok THEN [weather_stations |-> coll, ret |-> FALSE]
    ELSE [weather_stations |->
            SetReading(coll, station_id, t, WeatherEntry(weather_data, t)),
          ret |-> TRUE]

LogWeatherData(station_id, weather_data, ok) ==
    LET o == LogWeatherDataOutcome(weather_stations, station_id, weather_data,
                                   now, ok) IN
    /\ weather_stations' = o.weather_stations
    /\ svc' = Called("log_weather_data", station_id, ok, o.ret)
    /\ UNCHANGED <<lsnVars, yieldVars, storeVars, callVars, now, concVars, chatVars,
                   sessVars, featVars, equipment>>

\* get_weather_history(station_id, hours=24): the entries whose key is not
\* before now minus one day, each with its key as timestamp.
GetWeatherHistoryOutcome(coll, station_id, t, ok) ==
    IF ~ok \/ station_id \notin DOMAIN coll THEN <<>>
    ELSE LET keys == Ascending({k \in DOMAIN coll[station_id] :
                                  k >= t - TicksPerDay})
         IN  [i \in 1..Len(keys) |->
                Merge(coll[station_id][keys[i]], [timestamp |-> keys[i]])]

GetWeatherHistory(station_id, ok) ==
    /\ svc' = Called("get_weather_history", station_id, ok,
                     GetWeatherHistoryOutcome(weather_stations, station_id, now, ok))
    /\ UNCHANGED <<lsnVars, yieldVars, storeVars, callVars, now, concVars, chatVars,
                   sessVars, featVars, equipment, weather_stations>>

\* _get_mock_weather; temperature and wind speed in tenths.
MockWeather ==
    [temperature |-> 225, humidity |-> 65, description |-> "partly cloudy",
     wind_speed |-> 32, pressure |-> 1013]

\* What the weather request can end in: status 200 with a full body, status
\* 200 with a body that lacks a field, another status, an exception.
WeatherResponses == {"ok", "incomplete", "status_500", "raises"}

LiveWeather ==
    [temperature |-> 180, humidity |-> 40, description |-> "clear sky",
     wind_speed |-> 10, pressure |-> 1000]

GetCurrentWeatherOutcome(has_key, response) ==
    IF ~has_key THEN MockWeather
    ELSE IF response = "ok" THEN LiveWeather
    ELSE MockWeather

GetCurrentWeather(has_key, response) ==
    /\ svc' = Called("get_current_weather", has_key,
                     has_key /\ response = "ok",
                     GetCurrentWeatherOutcome(has_key, response))
    /\ UNCHANGED <<lsnVars, yieldVars, storeVars, callVars, now, concVars, chatVars,
                   sessVars, featVars, equipment, weather_stations>>

----------------------------------------------------------------------------
(* Real-time listeners of FirebaseService *)

\* The paths the dashboard listens on.
ListenerPaths == {"sensors", "alerts", "equipment"}

\* A mapping without one key: del d[key].
Without(d, key) == [k \in DOMAIN d \ {key} |-> d[k]]

\* d[key] = value on a dict.
Assign(d, key, value) ==
    [k \in DOMAIN d \cup {key} |-> IF k = key THEN value ELSE d[k]]

\* start_real_time_listener(path, callback). ref.listen opens a new stream
\* and returns its registration, which replaces whatever the registry held
\* for the path. ok = FALSE: ref.listen raises and nothing is registered.
StartRealTimeListener(path, ok) ==
    /\ Len(streams) < MaxListeners
    /\ IF ok
       THEN /\ streams' = Append(streams, "open")
            /\ listeners' = Assign(listeners, path, Len(streams) + 1)
       ELSE UNCHANGED <<listeners, streams>>
    /\ UNCHANGED <<yieldVars, storeVars, callVars, now, concVars, chatVars,
                   sessVars, featVars, svcVars>>

\* stop_real_time_listener(path) as [listeners, streams]. close_ok = FALSE:
\* close() raises, the handler logs it and the entry stays.
StopOutcome(reg, strs, path, close_ok) ==
    IF path \notin DOMAIN reg \/ ~close_ok
    THEN [listeners |-> reg, streams |-> strs]
    ELSE [listeners |-> Without(reg, path),
          streams |-> [strs EXCEPT ![reg[path]] = "closed"]]

StopRealTimeListener(path, close_ok) ==
    LET o == StopOutcome(listeners, streams, path, close_ok) IN
    /\ listeners' = o.listeners
    /\ streams' = o.streams
    /\ UNCHANGED <<yieldVars, storeVars, callVars, now, concVars, chatVars,
                   sessVars, featVars, svcVars>>

\* for path in list(self.listeners.keys()): self.stop_real_time_listener(path)
\* failing: the paths whose close() raises.
RECURSIVE StopAll(_, _, _, _)
StopAll(reg, strs, paths, failing) ==
    IF paths = {} THEN [listeners |-> reg, streams |-> strs]
    ELSE LET path == CHOOSE x \in paths : TRUE
             o == StopOutcome(reg, strs, path, path \notin failing)
         IN  StopAll(o.listeners, o.streams, paths \ {path}, failing)

Cleanup(failing) ==
    LET o == StopAll(listeners, streams, DOMAIN listeners, failing) IN
    /\ listeners' = o.listeners
    /\ streams' = o.streams
    /\ UNCHANGED <<yieldVars, storeVars, callVars, now, concVars, chatVars,
                   sessVars, featVars, svcVars>>

----------------------------------------------------------------------------
Init ==
    /\ is_trained = FALSE
    /\ model = Unfitted
    /\ now = 0
    /\ alerts = <<>>
    /\ sensors = <<>>
    /\ emitted = <<>>
    /\ notified = <<>>
    /\ last_op = "init"
    /\ last_arg = None
    /\ last_ret = None
    /\ model_calls = 0
    /\ model_inputs = <<>>
    /\ creating = [c \in Callers |-> <<>>]
    /\ create_log = <<>>
    /\ chatbot = [built |-> FALSE, client |-> FALSE]
    /\ chat_pc = "idle"
    /\ chat_request = <<>>
    /\ chat_reply = <<>>
    /\ chat_calls = 0
    /\ chat_errors = <<>>
    /\ sessions = [s \in Sessions |-> Idle]
    /\ df = <<>>
    /\ prepared = FALSE
    /\ equipment = <<>>
    /\ weather_stations = <<>>
    /\ listeners = <<>>
    /\ streams = <<>>
    /\ svc = [op |-> "none", arg |-> <<>>, ok |-> TRUE, ret |-> <<>>]

\* The frames handed to prepare_features.
InitFeatures ==
    /\ df \in Frames
    /\ prepared = FALSE
    /\ is_trained = FALSE
    /\ model = Unfitted
    /\ now = 0
    /\ alerts = <<>>
    /\ sensors = <<>>
    /\ emitted = <<>>
    /\ notified = <<>>
    /\ last_op = "init"
    /\ last_arg = None
    /\ last_ret = None
    /\ model_calls = 0
    /\ model_inputs = <<>>
    /\ creating = [c \in Callers |-> <<>>]
    /\ create_log = <<>>
    /\ chatbot = [built |-> FALSE, client |-> FALSE]
    /\ chat_pc = "idle"
    /\ chat_request = <<>>
    /\ chat_reply = <<>>
    /\ chat_calls = 0
    /\ chat_errors = <<>>
    /\ sessions = [s \in Sessions |-> Idle]
    /\ equipment = <<>>
    /\ weather_stations = <<>>
    /\ listeners = <<>>
    /\ streams = <<>>
    /\ svc = [op |-> "none", arg |-> <<>>, ok |-> TRUE, ret |-> <<>>]

NextYield ==
    \/ \E b \in Batches : TrainModel(b)
    \/ \E n \in 0..MaxMonths : PredictFutureYields(n)
    \/ Tick

SpecYield == Init /\ [][NextYield]_vars

NextAlerts ==
    \/ \E a \in ManualAlerts, ok \in BOOLEAN : CreateAlert(a, ok)
    \/ \E u \in BOOLEAN, n \in 0..MaxLimit, ok \in BOOLEAN : GetAlerts(u, n, ok)
    \/ \E k \in KnownKeys, ok \in BOOLEAN : MarkAlertRead(k, ok)
    \/ \E k \in KnownKeys, note \in Notes, ok \in BOOLEAN : ResolveAlert(k, note, ok)
    \/ Tick

SpecAlerts == Init /\ [][NextAlerts]_vars

NextMonitor ==
    \E sid \in SensorIds, ty \in SensorTypes, loc \in Locations,
       write_ok \in BOOLEAN, push_ok \in BOOLEAN :
        \E v \in SensorValues(ty) :
            AddSensorReading(sid, ty, v, "unit", loc, write_ok, push_ok)

SpecMonitor == Init /\ [][NextMonitor]_vars

NextConcurrent ==
    \/ \E c \in Callers, call \in CreateCalls : BeginCreate(c, call)
    \/ \E c \in Callers, ok \in BOOLEAN : CompleteCreate(c, ok)
    \/ Tick

SpecConcurrent == Init /\ [][NextConcurrent]_vars

NextChat ==
    \/ \E has_key \in BOOLEAN : GetChatbot(has_key)
    \/ \E m \in Messages, ctx \in Contexts, pick \in 1..Len(FallbackResponses) :
          GetResponse(m, ctx, pick)
    \/ \E ok \in BOOLEAN, text \in CompletionTexts,
          pick \in 1..Len(FallbackResponses) :
          CompletionReturns(ok, text, pick)

SpecChat == Init /\ [][NextChat]_vars

NextSessions ==
    \/ \E s \in Sessions, b \in SessionBatches : SessionBeginTrain(s, b)
    \/ \E s \in Sessions : SessionEndTrain(s)
    \/ \E s \in Sessions : SessionBeginPredict(s)
    \/ \E s \in Sessions : SessionEndPredict(s)

SpecSessions == Init /\ [][NextSessions]_vars

\* The alert and sensor calls of the data services run on a collection of at
\* most one alert, with keys the store handed out and one monitored sensor
\* type.
NextServices ==
    \/ \E name \in QueryNames, ok \in BOOLEAN :
          \E table \in QueryTables(name) : RelationalQuery(name, table, ok)
    \/ \E ok \in BOOLEAN : GetFirebaseAlerts(ok)
    \/ \E a \in DatabaseAlerts, ok \in BOOLEAN :
          alerts = <<>> /\ AddFirebaseAlert(a, ok)
    \/ \E ok \in BOOLEAN : GetSensorData(ok)
    \/ \E e \in EquipmentIds, st \in EquipmentStates, set_ok \in BOOLEAN,
          push_ok \in BOOLEAN : TrackEquipmentStatus(e, st, {}, set_ok, push_ok)
    \/ \E e \in {{}} \cup {{x} : x \in EquipmentIds}, ok \in BOOLEAN :
          GetEquipmentStatus(e, ok)
    \/ \E st \in StationIds, w \in WeatherReports, ok \in BOOLEAN :
          LogWeatherData(st, w, ok)
    \/ \E st \in StationIds, ok \in BOOLEAN : GetWeatherHistory(st, ok)
    \/ \E has_key \in BOOLEAN, r \in WeatherResponses :
          GetCurrentWeather(has_key, r)
    \/ \E a \in {x \in ManualAlerts : x.priority = "high"}, ok \in BOOLEAN :
          alerts = <<>> /\ CreateAlert(a, ok)
    \/ \E u \in BOOLEAN, n \in 0..MaxLimit, ok \in BOOLEAN : GetAlerts(u, n, ok)
    \/ \E k \in DOMAIN alerts, ok \in BOOLEAN : MarkAlertRead(k, ok)
    \/ \E k \in DOMAIN alerts, ok \in BOOLEAN : ResolveAlert(k, "", ok)
    \/ \E sid \in SensorIds, write_ok \in BOOLEAN, push_ok \in BOOLEAN :
          \E v \in {ThresholdMin("temperature") - 1, ThresholdMin("temperature")} :
             /\ alerts = <<>>
             /\ AddSensorReading(sid, "temperature", v, "unit", {}, write_ok, push_ok)

SpecServices == Init /\ [][NextServices]_vars

NextListeners ==
    \/ \E path \in ListenerPaths, ok \in BOOLEAN : StartRealTimeListener(path, ok)
    \/ \E path \in ListenerPaths, close_ok \in BOOLEAN :
          StopRealTimeListener(path, close_ok)
    \/ \E failing \in SUBSET ListenerPaths : Cleanup(failing)

SpecListeners == Init /\ [][NextListeners]_vars

NextFeatures == PrepareFeatures

SpecFeatures == InitFeatures /\ [][NextFeatures]_vars

Next ==
    NextYield \/ NextAlerts \/ NextMonitor \/ NextConcurrent \/ NextChat
    \/ NextSessions \/ NextFeatures \/ NextServices \/ NextListeners

Spec == Init /\ [][Next]_vars

----------------------------------------------------------------------------
(* Claims about the YieldPredictor, checked under SpecYield *)

\* C1: train_model on an untrained predictor with a batch of fewer than 10
\* rows (the empty batch included) returns False and leaves is_trained False.
C1_ShortBatchFails ==
    [][\A b \in Batches :
         (~is_trained /\ b.rows < 10 /\ TrainModel(b))
            => (last_ret' = FALSE /\ is_trained' = FALSE)]_vars

\* A well-formed batch of 9 rows was refused and the predictor is untrained.
C1_Witness ==
    /\ last_op = "train_model"
    /\ last_arg.rows = 9
    /\ last_arg.defect = "none"
    /\ last_ret = FALSE
    /\ ~is_trained

\* C2: the predictor starts untrained, and is_trained goes from False to
\* True only in a train_model call that returns True; predict_future_yields
\* and failed train_model calls never set it.
C2_TrainedOnlyBySuccessfulFit ==
    /\ is_trained = FALSE
    /\ [][(~is_trained /\ is_trained')
            => (\E b \in Batches : TrainModel(b) /\ last_ret' = TRUE)]_vars

\* A train_model call has succeeded and set the flag.
C2_Witness ==
    /\ last_op = "train_model"
    /\ last_ret = TRUE
    /\ is_trained

\* What C3 asks of the result r of predict(n) called at time t.
GoodForecast(r, n, t) ==
    /\ Len(r) = n
    /\ \A k \in 1..n :
         /\ r[k].date = t + 30 * k * TicksPerDay
         /\ r[k].predicted_yield >= 0
         /\ r[k].confidence = 8
    /\ \A k \in 1..(n - 1) :
         r[k + 1].date - r[k].date = 30 * TicksPerDay

\* C3: when train_model has just succeeded on a batch of at least 10 rows,
\* the following predict(n) returns exactly n points in ascending step
\* order, each with predicted value >= 0 and confidence 0.8, the period of
\* point k being the call time plus 30*k days.
C3_ForecastShape ==
    [][\A n \in 0..MaxMonths :
         (/\ last_op = "train_model"
          /\ last_ret = TRUE
          /\ last_arg.rows >= 10
          /\ PredictFutureYields(n))
            => GoodForecast(last_ret', n, now)]_vars

\* A forecast of three points was returned by a model fitted on negative
\* targets, at a call time after the start, with a value floored at zero.
C3_Witness ==
    /\ last_op = "predict_future_yields"
    /\ is_trained
    /\ last_arg.months_ahead = 3
    /\ last_arg.at > 0
    /\ Len(last_ret) = 3
    /\ model.ylo < 0
    /\ last_ret[2].predicted_yield = 0

\* C4: predict on a predictor that is not trained returns an empty result,
\* for every n, and does not invoke the regression model.
C4_UntrainedPredictEmpty ==
    (last_op = "predict_future_yields" /\ ~is_trained)
        => (last_ret = <<>> /\ model_calls = 0)

\* predict(3) came back empty on an untrained predictor whose regressor had
\* been fitted by a train_model call that then failed.
C4_Witness ==
    /\ last_op = "predict_future_yields"
    /\ ~is_trained
    /\ model.fitted
    /\ last_arg.months_ahead = 3
    /\ last_ret = <<>>

----------------------------------------------------------------------------
(* Claims about the sensor threshold monitor, checked under SpecMonitor *)

\* The threshold table as the specification states it, in tenths.
StatedMin(ty) ==
    CASE ty = "soil_moisture" -> 200 [] ty = "temperature" -> 50
      [] ty = "humidity" -> 300 [] ty = "ph_level" -> 60
StatedMax(ty) ==
    CASE ty = "soil_moisture" -> 800 [] ty = "temperature" -> 350
      [] ty = "humidity" -> 900 [] ty = "ph_level" -> 75
StatedTypes == {"soil_moisture", "temperature", "humidity", "ph_level"}

\* What C5 asks of the create_alert calls e made for a reading of type ty
\* and value v.
RightEmission(e, ty, v) ==
    LET low == ty \in StatedTypes /\ v < StatedMin(ty)
        high == ty \in StatedTypes /\ v > StatedMax(ty)
    IN  /\ Len(e) = (IF low \/ high THEN 1 ELSE 0)
        /\ low => e[1].title[1] = "Low"
        /\ high => e[1].title[1] = "High"

\* The reading the sensor sid has in coll at the current time is of type ty
\* and value v.
StoredNow(coll, sid, ty, v) ==
    /\ sid \in DOMAIN coll
    /\ now \in DOMAIN coll[sid]
    /\ coll[sid][now].sensor_type = ty
    /\ coll[sid][now].value = v

\* C5: a stored reading makes the monitor emit an alert if and only if its
\* metric type is in the threshold table and its value is strictly below min
\* or strictly above max; a value at a bound and a type outside the table
\* never alert; an out-of-range reading emits exactly one alert, "Low ..."
\* below min and "High ..." above max.
C5_AlertIffOutOfRange ==
    [][\A sid \in SensorIds, ty \in SensorTypes :
         \A v \in SensorValues(ty) :
            (/\ StoredNow(sensors', sid, ty, v)
             /\ \E loc \in Locations, push_ok \in BOOLEAN :
                   AddSensorReading(sid, ty, v, "unit", loc, TRUE, push_ok))
               => RightEmission(emitted', ty, v)]_vars

\* A soil moisture of 19.9 was stored and exactly one "Low" alert emitted.
C5_Witness ==
    /\ "s1" \in DOMAIN sensors
    /\ \E t \in DOMAIN sensors["s1"] :
         /\ sensors["s1"][t].sensor_type = "soil_moisture"
         /\ sensors["s1"][t].value = 199
    /\ Len(emitted) = 1
    /\ emitted[1].title = <<"Low", "Soil Moisture">>
    /\ emitted[1].message[4] = 199

----------------------------------------------------------------------------
(* Claims about the alert store accessor, checked under SpecAlerts *)

\* In the step formulas below a call is named by its action; the conjunct
\* before it (the store changed) only spares evaluating the action on the
\* steps of other calls.

\* The ids of the alerts of a get_alerts result.
Ids(r) == {r[i].id : i \in 1..Len(r)}

PushedKeys == DOMAIN alerts \cap PushKeys

\* C6: after create_alert returns an id, the alert stored under that id has
\* read = false and resolved = false; after a resolve_alert on that id that
\* succeeds, its resolved flag and its read flag are both true.
C6_CreateThenResolveFlags ==
    [][/\ \A a \in ManualAlerts :
            (DOMAIN alerts' # DOMAIN alerts /\ CreateAlert(a, TRUE)) =>
               LET id == CreateAlertOutcome(alerts, a.title, a.message,
                             a.priority, a.source, now, TRUE).ret
               IN  /\ id \notin DOMAIN alerts
                   /\ id \in DOMAIN alerts'
                   /\ alerts'[id].read = FALSE
                   /\ alerts'[id].resolved = FALSE
       /\ \A k \in PushedKeys, note \in Notes :
            (alerts' # alerts /\ ResolveAlert(k, note, TRUE)) =>
               /\ alerts'[k].resolved = TRUE
               /\ alerts'[k].read = TRUE]_vars

\* An alert that create_alert stored unread has been resolved, and is read.
C6_Witness ==
    \E k \in PushedKeys :
        /\ alerts[k].resolved = TRUE
        /\ alerts[k].read = TRUE
        /\ "resolved_at" \in DOMAIN alerts[k]

\* k is in no get_alerts(unread_only=True) result on coll.
NotListedUnread(coll, k) ==
    \A limit \in 0..MaxLimit, ok \in BOOLEAN :
        k \notin Ids(GetAlertsResult(coll, TRUE, limit, ok))

\* C7: an alert that was just created is in the result of
\* get_alerts(unread_only=True) (for every limit >= 1, the store answering);
\* after a mark_alert_read on its id that succeeds, it is in no later
\* get_alerts(unread_only=True) result: the call sets read, read is never
\* taken back, and a read alert is in no unread result.
C7_UnreadRoundTrip ==
    /\ [][/\ \A a \in ManualAlerts :
               (DOMAIN alerts' # DOMAIN alerts /\ CreateAlert(a, TRUE)) =>
                  \A limit \in 1..MaxLimit :
                     NextPushKey(alerts) \in
                        Ids(GetAlertsResult(alerts', TRUE, limit, TRUE))
          /\ \A k \in PushedKeys :
               (alerts' # alerts /\ MarkAlertRead(k, TRUE))
                  => alerts'[k].read = TRUE
          /\ \A k \in PushedKeys :
               (alerts[k].read = TRUE) => alerts'[k].read = TRUE]_vars
    /\ [](\A k \in PushedKeys :
            (alerts[k].read = TRUE) => NotListedUnread(alerts, k))

\* An alert was marked read (and not resolved) and is gone from the unread
\* list, which still holds another alert.
C7_Witness ==
    \E k \in PushedKeys, j \in PushedKeys :
        /\ alerts[k].read = TRUE
        /\ alerts[k].resolved = FALSE
        /\ k \notin Ids(GetAlertsResult(alerts, TRUE, MaxLimit, TRUE))
        /\ j \in Ids(GetAlertsResult(alerts, TRUE, MaxLimit, TRUE))

\* The alerts of the store with read = false.
StoredUnread ==
    {k \in DOMAIN alerts : "read" \in DOMAIN alerts[k] /\ alerts[k].read = FALSE}

SmallerOf(a, b) == IF a < b THEN a ELSE b

ResultOfResolve(k, note) ==
    /\ "resolved_at" \in DOMAIN alerts[k]
    /\ alerts[k].resolved = TRUE
    /\ alerts[k].read = TRUE
    /\ note # "" => /\ "resolution_note" \in DOMAIN alerts[k]
                    /\ alerts[k].resolution_note = note

\* C9: mark_alert_read(id) and resolve_alert(id, note) are idempotent: the
\* same call applied again leaves the stored alert as the first call left it.
C9_Idempotent ==
    [][/\ \A k \in PushedKeys :
            (alerts[k].read = TRUE /\ MarkAlertRead(k, TRUE))
               => alerts'[k] = alerts[k]
       /\ \A k \in PushedKeys, note \in Notes :
            (ResultOfResolve(k, note) /\ ResolveAlert(k, note, TRUE))
               => alerts'[k] = alerts[k]]_vars

\* C10: no operation of the alert accessor removes an alert: an id present
\* in the store stays present.
C10_NoAlertRemoved ==
    [][\A k \in DOMAIN alerts : k \in DOMAIN alerts']_vars

\* The store holds every alert pushed and the record of an unknown id, after
\* alerts were marked read and resolved.
C10_Witness ==
    /\ PushedKeys = PushKeys
    /\ ForeignKeys \subseteq DOMAIN alerts
    /\ \E k \in PushedKeys : alerts[k].resolved = TRUE
    /\ \E k \in PushedKeys : alerts[k].read = TRUE /\ alerts[k].resolved = FALSE

----------------------------------------------------------------------------
(* Claims about concurrent alert creation, checked under SpecConcurrent *)

Pushed == {i \in 1..Len(create_log) : create_log[i].pushed}

\* C11: when several callers create alerts concurrently, every create that
\* succeeded is a distinct stored alert: the id create_alert returned
\* retrieves exactly the record that call built, no two creates returned the
\* same id, and the collection holds as many alerts as creates succeeded
\* (no write is lost), because the key is handed out by the store's push.
C11_ConcurrentCreatesDistinct ==
    /\ \A i \in Pushed :
         create_log[i].op = "create_alert" =>
           /\ create_log[i].ret \in DOMAIN alerts
           /\ alerts[create_log[i].ret] = create_log[i].data
    /\ \A i \in Pushed :
         create_log[i].op = "add_firebase_alert" =>
           /\ create_log[i].ret = TRUE
           /\ \E k \in DOMAIN alerts : alerts[k] = create_log[i].data
    /\ \A i, j \in Pushed :
         (i # j /\ create_log[i].op = "create_alert"
                /\ create_log[j].op = "create_alert")
           => create_log[i].ret # create_log[j].ret
    /\ Cardinality(DOMAIN alerts) = Cardinality(Pushed)

\* Two callers overlapped: the one that built its record later got its push
\* in first, one call of each kind, and both succeeded.
C11_Witness ==
    /\ Len(create_log) = 2
    /\ Pushed = {1, 2}
    /\ create_log[1].caller # create_log[2].caller
    /\ create_log[1].op # create_log[2].op
    /\ create_log[1].data.timestamp > create_log[2].data.timestamp

----------------------------------------------------------------------------
(* Claims about the FarmChatbot, checked under SpecChat *)

\* The last get_response call has returned.
Replied == chat_request # <<>> /\ chat_pc = "idle"

AsText(m) == [kind |-> "str", text |-> m]

CornHasAphids ==
    AsText(<<"m", "y", " ", "c", "o", "r", "n", " ", "h", "a", "s", " ",
             "a", "p", "h", "i", "d", "s">>)

AphidsKey == <<"a", "p", "h", "i", "d", "s">>

AphidsAdvice ==
    "Use ladybugs, neem oil, or insecticidal soap. Remove affected leaves."

\* C12: for the message "my corn has aphids" the responder answers from the
\* "aphids" keyword without sending a completion request, and the reply is
\* the fixed aphid advice string verbatim.
C12_AphidsAdviceVerbatim ==
    (Replied /\ chat_request[1].user_message = CornHasAphids)
      => /\ chat_calls = 0
         /\ chat_reply = <<AphidsAdvice>>

\* The lowercased message contains a keyword of the table.
StatedKeywords == {knowledge_base[i].key : i \in 1..Len(knowledge_base)}
StatedMatch(m) ==
    /\ m.kind = "str"
    /\ \E key \in StatedKeywords :
         \E i \in 0..(Len(m.text) - Len(key)) :
            \A k \in 1..Len(key) : ToLower(m.text[i + k]) = key[k]

StatedAdvice == {knowledge_base[i].response : i \in 1..Len(knowledge_base)}

\* C13: whenever the lowercased message matches a keyword, get_response
\* answers with advice of the local table and sends no completion request
\* for that request; a completion request is only ever in progress or sent
\* for a message the local lookup did not match.
C13_LocalMatchSkipsCompletion ==
    /\ (chat_request # <<>> /\ StatedMatch(chat_request[1].user_message))
         => /\ chat_calls = 0
            /\ chat_pc = "idle"
            /\ chat_reply # <<>>
            /\ chat_reply[Len(chat_reply)] \in StatedAdvice
    /\ (chat_calls > 0 \/ chat_pc = "completion")
         => /\ chat_request # <<>>
            /\ chat_request[1].user_message.kind = "str"
            /\ ~StatedMatch(chat_request[1].user_message)

\* A chatbot with a completion client answered "Aphids!" (a match only after
\* lowercasing) from the table.
C13_Witness ==
    /\ Replied
    /\ chatbot.client
    /\ chat_request[1].user_message = AsText(<<"A", "p", "h", "i", "d", "s", "!">>)
    /\ chat_calls = 0
    /\ chat_reply[Len(chat_reply)] = AphidsAdvice

StatedCanned ==
    {<<"That's a great question about farming! I'd recommend checking with your local agricultural extension office for specific advice.">>,
     <<"For detailed farming guidance, consider consulting agricultural experts in your area or checking reputable farming resources online.">>,
     <<"I understand you're looking for farming advice. The dashboard data might have relevant insights, or you could consult with agricultural specialists.">>}

\* The completion request of the last call was sent and answered.
CompletionSucceeded ==
    chatbot.client /\ chat_calls = 1 /\ chat_errors = <<>>

\* C14: when no keyword matches, the reply is the text of the completion
\* service if a service is configured and its call succeeded, and otherwise
\* one of the three fixed canned responses.
C14_NoMatchReply ==
    /\ []((Replied /\ chat_request[1].user_message.kind = "str"
            /\ ~StatedMatch(chat_request[1].user_message))
           => IF CompletionSucceeded
              THEN chat_reply \in CompletionTexts
              ELSE chat_reply \in StatedCanned)
    /\ [][\A ok \in BOOLEAN, text \in CompletionTexts,
            pick \in 1..Len(FallbackResponses) :
            CompletionReturns(ok, text, pick)
              => /\ ok => chat_reply' = text
                 /\ ~ok => chat_reply' \in StatedCanned]_vars

\* A configured service failed on "hello" and the reply is a canned one.
C14_Witness ==
    /\ Replied
    /\ chatbot.client
    /\ chat_request[1].user_message = AsText(<<"h", "e", "l", "l", "o">>)
    /\ chat_calls = 1
    /\ chat_errors = <<"OpenAI API error">>
    /\ chat_reply \in StatedCanned

StatedApology ==
    <<"I'm sorry, I'm having trouble processing your request right now. Please try again later.">>

\* C15 as stated: whenever an exception was raised inside the responder, the
\* reply is the generic apology string.
C15_AnyExceptionGivesApology ==
    (Replied /\ chat_errors # <<>>) => chat_reply = StatedApology

\* C15, amended: get_response always returns a reply. An exception that
\* reaches the handler of get_response (a message that is not a string) is
\* answered with the generic apology string alone; an exception in the
\* completion path is caught by _get_ai_response and answered with one of
\* the canned responses. No reply carries error detail.
C15_NeverRaises ==
    /\ chat_pc \in {"idle", "completion"}
    /\ Replied =>
         /\ chat_request[1].user_message.kind # "str"
              => /\ chat_reply = StatedApology
                 /\ chat_errors = <<"Chatbot error">>
                 /\ chat_calls = 0
         /\ chat_errors = <<"OpenAI API error">> => chat_reply \in StatedCanned
         /\ chat_errors = <<"Chatbot error">> => chat_reply = StatedApology
         /\ chat_errors \in {<<>>, <<"Chatbot error">>, <<"OpenAI API error">>}

\* A message that is not a string was answered with the apology.
C15_Witness ==
    /\ Replied
    /\ chat_request[1].user_message.kind = "NoneType"
    /\ chat_reply = StatedApology

----------------------------------------------------------------------------
(* Claims about the dashboard sessions, checked under SpecSessions *)

\* C17: no predict on the shared estimator runs while a fit on the same
\* instance is in progress: the dashboard's callers serialize fit and
\* predict on the one cached YieldPredictor.
C17_NoPredictDuringFit ==
    \A a, b \in Sessions :
       ~(a # b /\ sessions[a].at = "fit" /\ sessions[b].at = "predict")

----------------------------------------------------------------------------
(* Claims about prepare_features, checked under SpecFeatures *)

StatedWeatherTable ==
    {<<"sunny", 9>>, <<"partly_cloudy", 7>>, <<"cloudy", 5>>,
     <<"rainy", 3>>, <<"stormy", 1>>, <<"drought", 1>>}

StatedWeatherKeys == {p[1] : p \in StatedWeatherTable}

\* C18: a weather condition that is missing or is not one of the six keys
\* of the table gets the score 0.5; a condition of the table gets its fixed
\* score (sunny 0.9, partly_cloudy 0.7, cloudy 0.5, rainy 0.3, stormy 0.1,
\* drought 0.1).
C18_WeatherScore ==
    /\ prepared =>
         \A i \in 1..Len(df) :
            IF df[i].weather_condition \in StatedWeatherKeys
            THEN <<df[i].weather_condition, df[i].weather_score>>
                   \in StatedWeatherTable
            ELSE df[i].weather_score = 5
    /\ \A p \in StatedWeatherTable : WeatherScore(p[1]) = p[2]

\* A prepared frame with a missing condition, an unknown one and one of the
\* table.
C18_Witness ==
    /\ prepared
    /\ \E i, j, k \in 1..Len(df) :
         /\ df[i].weather_condition = None /\ df[i].weather_score = 5
         /\ df[j].weather_condition = "hail" /\ df[j].weather_score = 5
         /\ df[k].weather_condition = "drought" /\ df[k].weather_score = 1

\* The row where a crop of the frame is first seen.
FirstSeen(frame, crop) ==
    Min({i \in 1..Len(frame) : frame[i].crop_type = crop})

\* C19: crop indices follow first-seen order within the batch: a row's index
\* is the number of distinct crops seen before its crop first appears (the
\* first distinct crop 0, the next 1, ...), so rows of the same crop share an
\* index; the same crop can get another index in another batch (in the
\* batch made of that crop alone it is 0).
C19_CropIndexFirstSeen ==
    prepared =>
      \A i \in 1..Len(df) :
         /\ df[i].crop_type_encoded =
              Cardinality({df[j].crop_type :
                             j \in 1..(FirstSeen(df, df[i].crop_type) - 1)})
         /\ \A j \in 1..Len(df) :
              df[j].crop_type = df[i].crop_type
                => df[j].crop_type_encoded = df[i].crop_type_encoded
         /\ CropMapping(Unique(<<df[i].crop_type>>))[df[i].crop_type] = 0

\* A prepared frame wheat, corn, wheat: wheat has index 0 here and corn 1,
\* while corn alone would have 0.
C19_Witness ==
    /\ prepared
    /\ Len(df) = 3
    /\ df[1].crop_type = "wheat" /\ df[1].crop_type_encoded = 0
    /\ df[2].crop_type = "corn" /\ df[2].crop_type_encoded = 1
    /\ df[3].crop_type = "wheat" /\ df[3].crop_type_encoded = 0

\* The rows of a frame whose soil score is present, their number and the
\* total of their scores.
Scored(frame) == {i \in 1..Len(frame) : frame[i].soil_quality_score # {}}

RECURSIVE SoilTotal(_, _)
SoilTotal(frame, rows) ==
    IF rows = {} THEN 0
    ELSE LET i == CHOOSE r \in rows : TRUE
             x == CHOOSE v \in frame[i].soil_quality_score : TRUE
         IN  x.num + SoilTotal(frame, rows \ {i})

\* C20: for every batch whose soil column has at least one value that is not
\* missing, prepare_features replaces each missing soil score by the mean of
\* the scores that are not missing and leaves those unchanged.
C20_SoilMeanImputation ==
    [][(PrepareFeatures /\ Scored(df) # {})
         => \A i \in 1..Len(df) :
               IF i \in Scored(df)
               THEN df'[i].soil_quality_score = df[i].soil_quality_score
               ELSE \E m \in df'[i].soil_quality_score :
                      /\ df'[i].soil_quality_score = {m}
                      /\ m.num * Cardinality(Scored(df))
                           = m.den * SoilTotal(df, Scored(df))]_vars

\* A prepared frame with the scores 0.6 and 0.9 and their mean 0.75 filled
\* into a third row.
C20_Witness ==
    /\ prepared
    /\ Len(df) = 3
    /\ \E i, j, k \in 1..Len(df) :
         /\ df[i].soil_quality_score = {[num |-> 6, den |-> 1]}
         /\ df[j].soil_quality_score = {[num |-> 9, den |-> 1]}
         /\ df[k].soil_quality_score = {[num |-> 15, den |-> 2]}

----------------------------------------------------------------------------
(* Claims about the data services, checked under SpecServices *)

StatedZeroKpi ==
    <<[total_harvest |-> 0, total_livestock |-> 0, pending_requests |-> 0,
       delivered_requests |-> 0]>>

StatedMockWeather ==
    [temperature |-> 225, humidity |-> 65, description |-> "partly cloudy",
     wind_speed |-> 32, pressure |-> 1013]

\* The last data service call returned its safe default.
ReturnedDefault ==
    CASE svc.op = "get_kpi_metrics" -> svc.ret = StatedZeroKpi
      [] svc.op \in {"get_harvest_trends", "get_issue_locations",
                     "get_resource_status", "get_historical_yields",
                     "get_inventory_data", "get_sensor_data",
                     "get_weather_history"} -> svc.ret = <<>>
      [] svc.op = "get_firebase_alerts" -> DOMAIN svc.ret = {}
      [] svc.op \in {"add_firebase_alert", "track_equipment_status",
                     "log_weather_data"} -> svc.ret = FALSE
      [] svc.op = "get_equipment_status" ->
           IF svc.arg = {} THEN svc.ret = <<>> ELSE svc.ret = {}
      [] svc.op = "get_current_weather" -> svc.ret = StatedMockWeather
      [] OTHER -> FALSE

\* C16: every public operation that calls an external service returns its
\* safe default when that call fails and raises nothing: the zero-filled KPI
\* row, an empty table, an empty list or dict, None or False, the mock
\* weather. For the alert and sensor calls of FirebaseService the default is
\* None for create_alert, [] for get_alerts and False for mark_alert_read,
\* resolve_alert and add_sensor_reading, whatever the store holds.
C16_SafeDefaults ==
    /\ ~svc.ok => ReturnedDefault
    /\ \A a \in ManualAlerts :
         CreateAlertOutcome(alerts, a.title, a.message, a.priority, a.source,
                            now, FALSE).ret = None
    /\ \A u \in BOOLEAN, n \in 0..MaxLimit :
         GetAlertsResult(alerts, u, n, FALSE) = <<>>
    /\ \A k \in KnownKeys :
         /\ MarkAlertReadOutcome(alerts, k, FALSE).ret = FALSE
         /\ \A note \in Notes :
              ResolveAlertOutcome(alerts, k, note, now, FALSE).ret = FALSE
    /\ AddSensorReadingResult(FALSE) = FALSE

\* A failed get_equipment_status("tractor") returned None although the store
\* holds a status for the tractor and an alert.
C16_Witness ==
    /\ svc.op = "get_equipment_status"
    /\ ~svc.ok
    /\ svc.arg = {"tractor"}
    /\ svc.ret = {}
    /\ "tractor" \in DOMAIN equipment
    /\ "current_status" \in DOMAIN equipment["tractor"]
    /\ alerts # <<>>

\* C21: predict builds the feature row of every future period from the month
\* of the call time, crop index 0, weather score 0.7 and soil score 0.75, so
\* all periods of one call use the same feature row.
C21_CurrentMonthFeatures ==
    (last_op = "predict_future_yields" /\ is_trained)
        => /\ Len(model_inputs) = last_arg.months_ahead
           /\ \A i \in 1..Len(model_inputs) :
                model_inputs[i] =
                    <<MonthOf(last_arg.at), DefaultCrop, AverageWeather,
                      AverageSoil>>

\* The day of the year, counted from 0, on which each month of a common
\* year starts, and the day after the year's last.
StatedMonthStarts == <<0, 31, 59, 90, 120, 151, 181, 212, 243, 273, 304, 334,
                       365>>

\* day falls in month m.
InMonth(day, m) ==
    /\ m \in 1..12
    /\ StatedMonthStarts[m] <= day % StatedMonthStarts[13]
    /\ day % StatedMonthStarts[13] < StatedMonthStarts[m + 1]

\* C21 (amended): predict builds the feature row of future period i from the
\* month of that period's own date, the call time plus 30*i days, with crop
\* index 0, weather score 0.7 and soil score 0.75; the periods of one call
\* share the last three features and differ in the month whenever their
\* dates fall in different months.
C21_PeriodMonthFeatures ==
    (last_op = "predict_future_yields" /\ is_trained)
        => /\ Len(model_inputs) = last_arg.months_ahead
           /\ \A i \in 1..Len(model_inputs) :
                /\ Len(model_inputs[i]) = 4
                /\ InMonth((last_arg.at \div TicksPerDay) + 30 * i,
                           model_inputs[i][1])
                /\ model_inputs[i][2] = 0
                /\ model_inputs[i][3] = 70
                /\ model_inputs[i][4] = 75

\* A forecast of three periods asked on 1 January used the months January
\* (31 January), March and April.
C21_Witness ==
    /\ last_op = "predict_future_yields"
    /\ is_trained
    /\ last_arg.at = 0
    /\ Len(model_inputs) = 3
    /\ model_inputs[1][1] = 1
    /\ model_inputs[2][1] = 3
    /\ model_inputs[3][1] = 4

\* The lowercased text of the last request, when the message was a string.
AskedText ==
    [k \in 1..Len(chat_request[1].user_message.text) |->
        ToLower(chat_request[1].user_message.text[k])]

\* sub occurs in text at offset i.
OccursAt(text, sub, i) ==
    /\ i + Len(sub) <= Len(text)
    /\ \A k \in 1..Len(sub) : text[i + k] = sub[k]

Occurs(text, sub) == \E i \in 0..Len(text) : OccursAt(text, sub, i)

\* sub occurs in text with a space or an end of the text on both sides.
Standalone(text, sub) ==
    \E i \in 0..Len(text) :
        /\ OccursAt(text, sub, i)
        /\ (i = 0 \/ text[i] = " ")
        /\ (i + Len(sub) = Len(text) \/ text[i + Len(sub) + 1] = " ")

\* The words of a keyword: every keyword of the table is one word.
StatedWords(key) == {key}

\* C22: a keyword matches a lowercased message exactly when the keyword
\* occurs as a substring of the message or one of the keyword's words occurs
\* as a standalone word of the message; a keyword word that occurs only
\* inside a longer word of the message does not match through the word rule.
C22_StandaloneWordRule ==
    (Replied /\ chat_request[1].user_message.kind = "str")
        => \A key \in StatedKeywords :
             /\ KeyMatches(key, AskedText)
                  <=> \/ Occurs(AskedText, key)
                      \/ \E w \in StatedWords(key) : Standalone(AskedText, w)
             /\ WordRule(key, AskedText)
                  => \E w \in StatedWords(key) : Standalone(AskedText, w)

\* C22 (amended): a keyword matches a lowercased message exactly when the
\* keyword occurs as a substring of the message; the word rule is a substring
\* test too (one of the keyword's words occurs anywhere in the message, also
\* inside a longer word), and the lookup answers exactly the messages some
\* keyword matches.
C22_SubstringWordRule ==
    (Replied /\ chat_request[1].user_message.kind = "str")
        => /\ \A key \in StatedKeywords :
                /\ KeyMatches(key, AskedText) <=> Occurs(AskedText, key)
                /\ WordRule(key, AskedText)
                     <=> \E w \in StatedWords(key) : Occurs(AskedText, w)
           /\ (CheckKnowledgeBase(AskedText) # <<>>)
                <=> \E key \in StatedKeywords : Occurs(AskedText, key)

\* "popcorn" was answered with the corn advice of the table, without a
\* completion request, although "corn" is no standalone word of it.
C22_Witness ==
    /\ Replied
    /\ chat_request[1].user_message = AsText(<<"p", "o", "p", "c", "o", "r", "n">>)
    /\ ~Standalone(AskedText, <<"c", "o", "r", "n">>)
    /\ WordRule(<<"c", "o", "r", "n">>, AskedText)
    /\ chat_calls = 0
    /\ chat_reply = CareTips(knowledge_base[1])

\* The alerts a call added to the store.
NewAlerts == {k \in DOMAIN alerts' : k \notin DOMAIN alerts}

\* C23: every out-of-range reading for which add_sensor_reading returns True
\* has exactly one alert persisted in the alert store for it, of high
\* priority and with the sensor id as source; a reading whose store write
\* failed produces no alert.
C23_OutOfRangeAlertPersisted ==
    [][\A sid \in SensorIds, ty \in SensorTypes, loc \in Locations,
          write_ok \in BOOLEAN, push_ok \in BOOLEAN :
         \A v \in SensorValues(ty) :
            AddSensorReading(sid, ty, v, "unit", loc, write_ok, push_ok)
              => /\ (/\ AddSensorReadingResult(write_ok)
                     /\ ty \in StatedTypes
                     /\ (v < StatedMin(ty) \/ v > StatedMax(ty)))
                       => /\ Cardinality(NewAlerts) = 1
                          /\ \A k \in NewAlerts :
                               /\ alerts'[k].priority = "high"
                               /\ alerts'[k].source = sid
                 /\ ~write_ok => alerts' = alerts]_vars

\* The flag of a stored alert is set.
IsRead(coll, k) == "read" \in DOMAIN coll[k] /\ coll[k].read = TRUE
IsResolved(coll, k) == "resolved" \in DOMAIN coll[k] /\ coll[k].resolved = TRUE

\* C24: in every reachable state of the alert store, after any sequence of
\* create, mark_read and resolve, every alert whose resolved flag is true
\* also has its read flag true.
C24_ResolvedImpliesRead ==
    \A k \in DOMAIN alerts : IsResolved(alerts, k) => IsRead(alerts, k)

\* The first alert was marked read and is unresolved, the second was
\* resolved without being marked read before and is read.
C24_Witness ==
    /\ DOMAIN alerts = PushKeys
    /\ IsRead(alerts, 1) /\ alerts[1].resolved = FALSE
    /\ IsResolved(alerts, 2) /\ IsRead(alerts, 2)
    /\ alerts[2].resolved_at = alerts[2].timestamp

\* C25: the read and resolved flags of an alert are monotonic: once a flag
\* is true no accessor operation sets it back to false, and an alert that
\* left the unread list never re-enters it.
C25_FlagsMonotonic ==
    [][\A k \in DOMAIN alerts :
         /\ IsRead(alerts, k)
              => /\ k \in DOMAIN alerts'
                 /\ IsRead(alerts', k)
                 /\ k \notin UnreadKeys(alerts')
         /\ IsResolved(alerts, k)
              => /\ k \in DOMAIN alerts'
                 /\ IsResolved(alerts', k)]_vars

\* An alert resolved at time 0 is still read and resolved at time 1, after a
\* later alert was created and marked read.
C25_Witness ==
    /\ now = 1
    /\ DOMAIN alerts = PushKeys
    /\ IsRead(alerts, 1) /\ IsResolved(alerts, 1)
    /\ alerts[1].resolved_at = 0
    /\ alerts[2].timestamp = 1
    /\ IsRead(alerts, 2) /\ ~IsResolved(alerts, 2)

\* The fields create_alert writes into every alert.
StatedAlertFields ==
    {"title", "message", "priority", "timestamp", "read", "resolved"}

\* C26: mark_read and resolve never add a record to the alert collection:
\* called with an id that no create returned they leave the set of stored
\* alerts unchanged, so every stored alert has all fields written by create
\* and list keeps working (it returns the stored alerts, up to its limit).
C26_UpdatesAddNoRecord ==
    /\ [][((\E k \in KnownKeys, ok \in BOOLEAN : MarkAlertRead(k, ok))
            \/ (\E k \in KnownKeys, note \in Notes, ok \in BOOLEAN :
                   ResolveAlert(k, note, ok)))
           => DOMAIN alerts' = DOMAIN alerts]_vars
    /\ [](\A k \in DOMAIN alerts : StatedAlertFields \subseteq DOMAIN alerts[k])
    /\ [](Len(GetAlertsResult(alerts, FALSE, MaxLimit, TRUE))
             = SmallerOf(MaxLimit, Cardinality(DOMAIN alerts)))

\* C27: a fit call that returns failure leaves the estimator unchanged: the
\* trained flag and the fitted model are the same as before the call, so a
\* predict after a failed fit behaves as it would have before that fit.
C27_FailedFitChangesNothing ==
    [][\A b \in Batches :
         (TrainModel(b) /\ last_ret' = FALSE)
            => /\ is_trained' = is_trained
               /\ model' = model]_vars

\* The listener registrations that were started and not closed.
OpenStreams == {h \in 1..Len(streams) : streams[h] = "open"}

\* The registrations the registry records.
Registered == {listeners[p] : p \in DOMAIN listeners}

\* C28: after any sequence of start_real_time_listener,
\* stop_real_time_listener and cleanup calls, every listener that was
\* started and not yet closed is recorded in the listeners registry; hence
\* after a cleanup whose closes succeed no started listener remains open,
\* including when a listener was started twice on the same path.
C28_OpenListenersRegistered ==
    /\ [](OpenStreams \subseteq Registered)
    /\ [][Cleanup({}) => (\A h \in 1..Len(streams') : streams'[h] = "closed")]_vars

\* C29: track_equipment_status updates the current status and the history
\* together: when it returns True the equipment's current_status equals the
\* newest history entry, and when it returns False neither current_status
\* nor history was changed.
C29_StatusAndHistoryTogether ==
    [][\A e \in EquipmentIds, st \in EquipmentStates, set_ok \in BOOLEAN,
          push_ok \in BOOLEAN :
         (/\ svc'.op = "track_equipment_status"
          /\ TrackEquipmentStatus(e, st, {}, set_ok, push_ok))
            => /\ svc'.ret = TRUE
                    => /\ "current_status" \in DOMAIN equipment'[e]
                       /\ "history" \in DOMAIN equipment'[e]
                       /\ equipment'[e].history # <<>>
                       /\ equipment'[e].current_status
                            = equipment'[e].history[Len(equipment'[e].history)]
               /\ svc'.ret = FALSE => equipment' = equipment]_vars

\* C30: the inventory status classification reports every item with
\* current_stock = 0 as 'Out of Stock', every other item with
\* current_stock <= min_required as 'Low Stock', and all remaining items as
\* 'In Stock'.
C30_InventoryStatus ==
    (svc.op = "get_inventory_data" /\ svc.ok)
        => \A i \in 1..Len(svc.ret) :
             svc.ret[i].status =
                IF svc.ret[i].current_stock = 0 THEN "Out of Stock"
                ELSE IF svc.ret[i].current_stock <= svc.ret[i].min_required
                THEN "Low Stock"
                ELSE "In Stock"

====
